---- MODULE Spec2Model ----
(***************************************************************************)
(* Model of the react-bootstrap -> Material UI codemods of this            *)
(* repository.  Every transformer of src/ is a function from a parsed      *)
(* file (import section + JSX element tree) to a rewritten file; the model *)
(* keeps the file, runs one transformer on it (once, then again on its own *)
(* output) and records what the transformer returned.                      *)
(*                                                                         *)
(* Engines (one per transformer of src/):                                  *)
(*   G1  js/react-bootstrap-to-mui_gemini2.js, lines 1-278                 *)
(*   G2  js/react-bootstrap-to-mui_gemini2.js, lines 279-1151              *)
(*   CL  js/bootstrap_mui_claude.js                                        *)
(*   DP  js/bootstrap_mui_deep.js                                          *)
(*   MN  js/react-bootstrap-to-mui_manus.js                                *)
(*   P1  unnamed/part_001                                                  *)
(*   P0  unnamed/part_000                                                  *)
(*   RC  js/react-bootstrap-to-mui_claude.js                               *)
(*                                                                         *)
(* Some lines of the sources have lost characters.  They are read as the   *)
(* code around them reads:                                                 *)
(*   gemini2.js 202 and 203   `const newAttributes = [];`, `sxProps = [];` *)
(*   gemini2.js 248-250       `... || children` (the operator is cut)      *)
(*   gemini2.js 252           `path.node.children = [];`                   *)
(*   deep.js 320              `.filter(c => c.trim());`, as line 317       *)
(***************************************************************************)
EXTENDS Integers, Sequences, FiniteSets, TLC

VARIABLES
    parser,     \* the parser jscodeshift is run with: "babel" (estree nodes) or "tsx"
    engine,     \* the transformer that is run on the file ("" before the first run)
    imports,    \* the file's import section, as text (a sequence of declarations)
    nodes,      \* the file's JSX tree, as text (flat, in document order)
    result,     \* what the last run returned: "none", "null", "source", "printed", "threw"
    runs,       \* number of runs done on the file
    orig,       \* the input file
    first,      \* the file after the first run
    diag        \* console warnings emitted by the runs

vars == <<parser, engine, imports, nodes, result, runs, orig, first, diag>>

-----------------------------------------------------------------------------
(* Bounds of the model. *)

MaxRuns == 2        \* runs of the transformer on one file
MaxNodes == 2       \* elements of an input tree (components family)
MaxTokens == 2      \* tokens of an input class string
MaxItems == 2       \* children of the header of an input modal

-----------------------------------------------------------------------------
(* JavaScript values. *)

Undef == "<undefined>"

\* A Map / insertion-ordered object as a sequence of [k, v] entries.
MapHas(m, k) == \E i \in 1..Len(m) : m[i].k = k
MapGet(m, k) == IF MapHas(m, k)
                THEN m[CHOOSE i \in 1..Len(m) : m[i].k = k].v
                ELSE Undef
MapSet(m, k, v) ==
    IF MapHas(m, k)
    THEN [i \in 1..Len(m) |-> IF m[i].k = k THEN [k |-> k, v |-> v] ELSE m[i]]
    ELSE Append(m, [k |-> k, v |-> v])

\* A Set (insertion ordered, as Array.from sees it).
SetAdd(s, x) == IF \E i \in 1..Len(s) : s[i] = x THEN s ELSE Append(s, x)
Elems(s) == {s[i] : i \in 1..Len(s)}

\* an object without entries
NoEntries == [k \in {} |-> ""]

\* Array.prototype.reduce; every step is evaluated before the next one starts
Fold(Op(_, _), acc, s) ==
    LET RECURSIVE go(_, _)
        go(a, i) == IF i > Len(s) THEN a
                    ELSE LET next == Op(a, s[i])
                         IN IF next = next THEN go(next, i + 1) ELSE a
    IN go(acc, 1)

\* Array.prototype.forEach over the paths a find() collected, on a working state.
\* A transformer that threw stops there.
ForEach(st, idxs, Visit(_, _)) ==
    Fold(LAMBDA a, i : IF a.threw THEN a ELSE Visit(a, i), st, idxs)

\* The indices 1..n in order.
Upto(n) == [i \in 1..n |-> i]
SelectIdx(n, Test(_)) == SelectSeq(Upto(n), Test)

Concat(ss) == Fold(LAMBDA a, s : a \o s, <<>>, ss)

-----------------------------------------------------------------------------
(* The syntax tree.                                                        *)
(*                                                                         *)
(* Tag: the name of an element: a JSXIdentifier (prop = "") or a           *)
(* JSXMemberExpression obj.prop.                                           *)
(* Attr: a JSXAttribute.  form: "none" (no value), "lit" (a literal),      *)
(* "cont" (a JSXExpressionContainer); ty: what the value is ("string",     *)
(* "number", "boolean", "object" for an object expression, "expr" for any  *)
(* other expression); nt: the node type of the literal or expression;      *)
(* val: the literal's value or the expression's text; cls: the value of a  *)
(* class string, as symbols; props: the properties of an object expression.*)
(* Node: a JSXElement or a JSXText of the tree, kept in document order     *)
(* with the index of its parent (0 at top level).                          *)

Tag(o, p) == [obj |-> o, prop |-> p]
Ident(n) == Tag(n, "")
IsMember(t) == t.prop # ""
\* node.name.name: the identifier's name, undefined on a member expression
NameOf(t) == IF IsMember(t) THEN Undef ELSE t.obj

LitType(p, ty) ==
    IF p = "babel" THEN "Literal"
    ELSE CASE ty = "string" -> "StringLiteral"
           [] ty = "number" -> "NumericLiteral"
           [] OTHER -> "BooleanLiteral"

ExprType(p, ty) ==
    CASE ty \in {"string", "number", "boolean"} -> LitType(p, ty)
      [] ty = "object" -> "ObjectExpression"
      [] OTHER -> "Identifier"

\* a property of an object expression: key: value, or 'key': value (quoted)
Prop(k, ty, v) == [key |-> k, ty |-> ty, val |-> v, quoted |-> FALSE]
QuotedProp(k, ty, v) == [key |-> k, ty |-> ty, val |-> v, quoted |-> TRUE]
\* p.key.name: the name of an identifier key, undefined on a quoted key
KeyName(p) == IF p.quoted THEN Undef ELSE p.key

MkAttr(n, form, nt, ty, v, cls, props) ==
    [name |-> n, form |-> form, nt |-> nt, ty |-> ty, val |-> v, cls |-> cls, props |-> props]

\* builders of jscodeshift
jsxAttributeNoValue(n) == MkAttr(n, "none", "", "none", "", <<>>, <<>>)
jsxAttributeLiteral(n, ty, v) == MkAttr(n, "lit", "Literal", ty, v, <<>>, <<>>)
jsxAttributeStringLiteral(n, v) == MkAttr(n, "lit", "StringLiteral", "string", v, <<>>, <<>>)
jsxAttributeExpr(n, nt, ty, v) == MkAttr(n, "cont", nt, ty, v, <<>>, <<>>)
jsxAttributeObject(n, props) == MkAttr(n, "cont", "ObjectExpression", "object", "", <<>>, props)

IsLiteralType(nt) == nt \in {"Literal", "StringLiteral", "NumericLiteral", "BooleanLiteral"}

\* attr.value.value: the value of a literal given directly, else undefined
ValueValue(a) == IF a.form = "lit" THEN a.val ELSE Undef
\* attr.value.expression?.value: the value of a literal in a container
ExpressionValue(a) == IF a.form = "cont" /\ IsLiteralType(a.nt) THEN a.val ELSE Undef

Elem(open, hasClose, attrs, parent) ==
    [kind |-> "elem", open |-> open, close |-> open, hasClose |-> hasClose,
     attrs |-> attrs, parent |-> parent, live |-> TRUE, txt |-> ""]
Text(t, parent) ==
    [kind |-> "text", open |-> Ident("#text"), close |-> Ident("#text"), hasClose |-> FALSE,
     attrs |-> <<>>, parent |-> parent, live |-> TRUE, txt |-> t]

Spec_(kind, imported, local) == [kind |-> kind, imported |-> imported, local |-> local]
Named(n) == Spec_("named", n, n)
Decl(src, nt, specs) == [source |-> src, nt |-> nt, specs |-> specs]

RECURSIVE Attached(_, _)
\* the node is still part of the tree (it and all its ancestors)
Attached(ns, i) ==
    /\ ns[i].live
    /\ ns[i].parent = 0 \/ Attached(ns, ns[i].parent)

IsElem(ns, i) == ns[i].kind = "elem"

\* the children of node p, in order
Children(ns, p) == SelectIdx(Len(ns), LAMBDA i : ns[i].live /\ ns[i].parent = p)

RECURSIVE IsUnder(_, _, _)
\* node i is p or a descendant of p
IsUnder(ns, i, p) ==
    \/ i = p
    \/ i # 0 /\ ns[i].parent # 0 /\ IsUnder(ns, ns[i].parent, p)

-----------------------------------------------------------------------------
(* Parsing and printing (the text of a file is the tree without node types: *)
(* j.literal('x') and j.stringLiteral('x') print alike, and the parser      *)
(* decides the node type of every literal it reads).                        *)

toSourceAttr(a) == [a EXCEPT !.nt = ""]

RECURSIVE PreOrder(_, _)
\* the nodes under p (0: the whole tree) in document order
PreOrder(ns, p) ==
    Concat([k \in 1..Len(Children(ns, p)) |->
               <<Children(ns, p)[k]>> \o PreOrder(ns, Children(ns, p)[k])])

toSource(ast) ==
    LET ns == ast.nodes
        keep == PreOrder(ns, 0)
        newIdx(i) == IF i = 0 THEN 0 ELSE CHOOSE k \in 1..Len(keep) : keep[k] = i
    IN [imports |-> [d \in 1..Len(ast.imports) |-> [ast.imports[d] EXCEPT !.nt = ""]],
        nodes |-> [k \in 1..Len(keep) |->
                     LET n == ns[keep[k]]
                     IN [n EXCEPT !.parent = newIdx(n.parent),
                                  !.close = IF n.hasClose THEN @ ELSE n.open,
                                  !.attrs = [x \in 1..Len(n.attrs) |-> toSourceAttr(n.attrs[x])]]]]

parseAttr(a, p) ==
    [a EXCEPT !.nt = CASE a.form = "lit" -> LitType(p, a.ty)
                       [] a.form = "cont" -> ExprType(p, a.ty)
                       [] OTHER -> ""]

parse(text, p) ==
    [imports |-> [d \in 1..Len(text.imports) |->
                    [text.imports[d] EXCEPT !.nt = LitType(p, "string")]],
     nodes |-> [i \in 1..Len(text.nodes) |->
                  [text.nodes[i] EXCEPT !.attrs =
                      [x \in 1..Len(text.nodes[i].attrs) |-> parseAttr(text.nodes[i].attrs[x], p)]]]]

\* the working state of a run
Start(ast) ==
    [imports |-> ast.imports, nodes |-> ast.nodes, changed |-> FALSE,
     adds |-> <<>>, threw |-> FALSE, diag |-> <<>>, ret |-> "printed"]

Throw(st) == [st EXCEPT !.threw = TRUE]

\* root.find(j.ImportDeclaration, { source: { value: src } })
FindImports(imps, src) == SelectIdx(Len(imps), LAMBDA d : imps[d].source = src)

RemoveAt(s, i) == [k \in 1..(Len(s) - 1) |-> IF k < i THEN s[k] ELSE s[k + 1]]
InsertAt(s, i, x) == [k \in 1..(Len(s) + 1) |-> IF k < i THEN s[k] ELSE IF k = i THEN x ELSE s[k - 1]]

-----------------------------------------------------------------------------
(* MN: js/react-bootstrap-to-mui_manus.js *)

MN_componentMap ==
    [Button |-> "Button", Card |-> "Card", Modal |-> "Dialog", Form |-> "FormControl",
     Input |-> "TextField", FormControl |-> "TextField", Navbar |-> "AppBar",
     Dropdown |-> "Menu", Table |-> "Table", Badge |-> "Badge", Alert |-> "Alert",
     Container |-> "Container", Row |-> "Grid", Col |-> "Grid", Tabs |-> "Tabs",
     Tab |-> "Tab", Pagination |-> "Pagination", Spinner |-> "CircularProgress",
     Toast |-> "Snackbar", ButtonGroup |-> "ButtonGroup", Accordion |-> "Accordion",
     Offcanvas |-> "Drawer", ProgressBar |-> "LinearProgress", ListGroup |-> "List",
     ListGroupItem |-> "ListItem"]

\* the entries of propMap: "fn" a function, "null" a null entry, else the new name
MN_propMap ==
    [Button |-> [variant |-> "fn", size |-> "fn"],
     Modal |-> [show |-> "open", onHide |-> "onClose"],
     Row |-> [className |-> "fn", noGutters |-> "fn"],
     Col |-> [xs |-> "fn", sm |-> "fn", md |-> "fn", lg |-> "fn", xl |-> "fn", className |-> "fn"],
     Input |-> [type |-> "null"],
     FormControl |-> [controlId |-> "null"]]

DigitStrings == {"0", "1", "2", "3", "4", "5", "6", "7", "8", "9", "10", "11", "12"}
parseInt(v) == IF v \in DigitStrings THEN v ELSE "NaN"

\* The functions of propMap, applied as line 132 applies them: to the value of a
\* literal given directly, to the value node otherwise, to true without a value.
\* The result is the attribute line 134 or 136 builds; j.literal throws on a node.
MN_propFn(comp, a) ==
    LET isValue == a.form = "lit" /\ a.nt = "Literal"
        isTrue == a.form = "none"
        ok(x) == [threw |-> FALSE, out |-> <<x>>]
        bad == [threw |-> TRUE, out |-> <<>>]
    IN CASE comp = "Button" /\ a.name = "variant" ->
              IF isValue
              THEN ok(jsxAttributeLiteral("variant", a.ty,
                        CASE a.val = "primary" -> "contained"
                          [] a.val = "secondary" -> "outlined"
                          [] a.val = "link" -> "text"
                          [] OTHER -> a.val))
              ELSE IF isTrue THEN ok(jsxAttributeLiteral("variant", "boolean", "true"))
              ELSE bad
         [] comp = "Button" /\ a.name = "size" ->
              ok(jsxAttributeLiteral("size", "string",
                        CASE isValue /\ a.val = "sm" -> "small"
                          [] isValue /\ a.val = "lg" -> "large"
                          [] OTHER -> "medium"))
         [] comp = "Row" /\ a.name = "className" -> ok(jsxAttributeNoValue("container"))
         [] comp = "Row" /\ a.name = "noGutters" -> ok(jsxAttributeLiteral("spacing", "number", "0"))
         [] comp = "Col" /\ a.name = "className" -> ok(jsxAttributeNoValue("item"))
         [] OTHER -> \* Col xs, sm, md, lg, xl
              ok(jsxAttributeLiteral(a.name, "number", IF isValue THEN parseInt(a.val) ELSE "NaN"))

\* lines 127-145: one attribute through its prop transformer
MN_attr(comp, a) ==
    LET pm == MN_propMap[comp]
    IN IF a.name \in DOMAIN pm /\ pm[a.name] # "null"
       THEN IF pm[a.name] = "fn" THEN MN_propFn(comp, a)
            ELSE [threw |-> FALSE, out |-> <<[a EXCEPT !.name = pm[a.name]]>>]
       ELSE [threw |-> FALSE, out |-> <<a>>]

\* lines 89-97
MN_reactBootstrapImports(imps) ==
    Fold(LAMBDA m, d :
            Fold(LAMBDA m2, sp : IF sp.kind = "named" THEN MapSet(m2, sp.local, sp.imported) ELSE m2,
                 m, imps[d].specs),
         <<>>, FindImports(imps, "react-bootstrap"))

\* lines 101-150: the callback of root.find(j.JSXElement).forEach
MN_visit(st, i) ==
    LET n == st.nodes[i]
        local == NameOf(n.open)
        comp == MapGet(st.rb, local)
    IN IF MapHas(st.rb, local) /\ comp \in DOMAIN MN_componentMap
       THEN LET mui == MN_componentMap[comp]
                renamed == [n EXCEPT !.open = Ident(mui),
                                     !.close = IF n.hasClose THEN Ident(mui) ELSE @]
                res == IF comp \in DOMAIN MN_propMap
                       THEN Fold(LAMBDA acc, a :
                                    LET r == MN_attr(comp, a)
                                    IN [threw |-> acc.threw \/ r.threw, out |-> acc.out \o r.out],
                                 [threw |-> FALSE, out |-> <<>>], n.attrs)
                       ELSE [threw |-> FALSE, out |-> n.attrs]
            IN [st EXCEPT !.nodes[i] = IF res.threw THEN renamed ELSE [renamed EXCEPT !.attrs = res.out],
                          !.adds = MapSet(@, mui, "@mui/material"),
                          !.threw = res.threw]
       ELSE st

\* lines 152-189: add the new MUI imports
MN_addImports(st) ==
    LET imps == st.imports
        existingMuiImports ==
            UNION {{imps[d].specs[k].imported :
                        k \in {x \in 1..Len(imps[d].specs) : imps[d].specs[x].kind = "named"}} :
                   d \in Elems(FindImports(imps, "@mui/material"))}
        components == SelectSeq(st.adds, LAMBDA e : e.k \notin existingMuiImports)
        importStatement ==
            Decl("@mui/material", "Literal", [k \in 1..Len(components) |-> Named(components[k].k)])
    IN IF Len(components) = 0 THEN st
       ELSE [st EXCEPT !.imports = Append(imps, importStatement)]

\* lines 191-205: remove the react-bootstrap specifiers that were mapped
MN_removeImports(st) ==
    LET keepSpec(sp) ==
            LET originalComponentName == MapGet(st.rb, sp.local)
            IN ~MapHas(st.rb, sp.local) \/ originalComponentName \notin DOMAIN MN_componentMap
        filtered == [d \in 1..Len(st.imports) |->
                        IF st.imports[d].source = "react-bootstrap"
                        THEN [st.imports[d] EXCEPT !.specs = SelectSeq(@, keepSpec)]
                        ELSE st.imports[d]]
    IN [st EXCEPT !.imports =
            SelectSeq(filtered, LAMBDA d : d.source # "react-bootstrap" \/ Len(d.specs) > 0)]

\* lines 82-208
MN_transformer(ast) ==
    LET st0 == [Start(ast) EXCEPT !.ret = "printed"] @@ [rb |-> MN_reactBootstrapImports(ast.imports)]
        st1 == ForEach(st0, SelectIdx(Len(ast.nodes), LAMBDA i : IsElem(ast.nodes, i)), MN_visit)
    IN IF st1.threw THEN st1 ELSE MN_removeImports(MN_addImports(st1))

-----------------------------------------------------------------------------
(* G1: js/react-bootstrap-to-mui_gemini2.js, the first transformer (lines 1-278) *)

\* COMPONENT_MAP, by imported name and sub-component name ("" for the component):
\* newName ("" for null), propMap (as MN_propMap, "object" for an object entry),
\* the props appended, and the special transform
G1_COMPONENT_MAP ==
    [Button |->
        [self |-> [newName |-> "Button",
                   propMap |-> [variant |-> "fn", size |-> "fn", active |-> "active", disabled |-> "disabled"],
                   props |-> <<>>, transform |-> ""],
         subComponents |-> NoEntries],
     Card |->
        [self |-> [newName |-> "Card", propMap |-> [bg |-> "fn", border |-> "fn", text |-> "fn"],
                   props |-> <<>>, transform |-> ""],
         subComponents |->
            [Body |-> [newName |-> "CardContent", propMap |-> NoEntries, props |-> <<>>, transform |-> ""],
             Title |-> [newName |-> "Typography", propMap |-> NoEntries,
                        props |-> <<jsxAttributeLiteral("variant", "string", "h5"),
                                    jsxAttributeLiteral("component", "string", "div")>>,
                        transform |-> ""],
             Header |-> [newName |-> "CardHeader", propMap |-> NoEntries, props |-> <<>>,
                         transform |-> "childrenToTitleProp"],
             Img |-> [newName |-> "CardMedia", propMap |-> [src |-> "image"],
                      props |-> <<jsxAttributeLiteral("component", "string", "img")>>, transform |-> ""],
             Text |-> [newName |-> "Typography", propMap |-> NoEntries,
                       props |-> <<jsxAttributeLiteral("variant", "string", "body2")>>, transform |-> ""],
             Link |-> [newName |-> "Link", propMap |-> NoEntries, props |-> <<>>, transform |-> ""]]],
     Modal |->
        [self |-> [newName |-> "Dialog",
                   propMap |-> [show |-> "open", onHide |-> "onClose", size |-> "fn",
                                centered |-> "object", keyboard |-> "fn"],
                   props |-> <<>>, transform |-> ""],
         subComponents |->
            [Header |-> [newName |-> "DialogTitle", propMap |-> NoEntries, props |-> <<>>, transform |-> ""],
             Title |-> [newName |-> "", propMap |-> NoEntries, props |-> <<>>, transform |-> ""],
             Body |-> [newName |-> "DialogContent", propMap |-> NoEntries, props |-> <<>>, transform |-> ""],
             Footer |-> [newName |-> "DialogActions", propMap |-> NoEntries, props |-> <<>>, transform |-> ""]]]]

\* value.startsWith('outline-') and value.substring(8), on the variants of the inputs
OutlineColor ==
    ("outline-primary" :> "primary") @@ ("outline-secondary" :> "secondary") @@
    ("outline-success" :> "success") @@ ("outline-danger" :> "danger") @@
    ("outline-warning" :> "warning") @@ ("outline-info" :> "info") @@
    ("outline-custom" :> "custom")
startsWithOutline(v) == v \in DOMAIN OutlineColor

\* Array.prototype.sort() of component names (code unit order)
NameOrder ==
    <<"Alert", "AppBar", "Badge", "Box", "Button", "Card", "CardActions", "CardContent",
      "CardHeader", "CardMedia", "Checkbox", "CircularProgress", "Container", "Dialog",
      "DialogActions", "DialogContent", "DialogTitle", "Grid", "InputLabel", "Link", "Table",
      "TextField", "ThemeProvider", "Toolbar", "Typography">>
sort(names) == SelectSeq(NameOrder, LAMBDA n : n \in Elems(names))

\* lines 75-91
G1_getBootstrapImports(imps) ==
    Fold(LAMBDA m, d :
            Fold(LAMBDA m2, sp :
                    IF sp.kind = "named" THEN MapSet(m2, sp.local, sp.imported)
                    ELSE IF sp.kind = "default" THEN MapSet(m2, sp.local, "default")
                    ELSE m2,
                 m, imps[d].specs),
         <<>>, FindImports(imps, "react-bootstrap"))

\* lines 205-236: one attribute through its prop rule.  The value read at line 211
\* is undefined for an expression that is no literal, and reading it throws when
\* the attribute has no value; the builders throw on what they cannot hold.
G1_attr(importedName, mapping, a) ==
    LET rule == IF a.name \in DOMAIN mapping.propMap THEN mapping.propMap[a.name] ELSE ""
        defined == a.form = "lit" \/ (a.form = "cont" /\ IsLiteralType(a.nt))
        ok(xs) == [threw |-> FALSE, out |-> xs]
        bad == [threw |-> TRUE, out |-> <<>>]
    IN IF rule = "" THEN ok(<<a>>)
       ELSE IF a.form = "none" THEN bad
       ELSE IF rule = "object" THEN ok(<<>>)
       ELSE IF rule # "fn" THEN ok(<<[a EXCEPT !.name = rule]>>)
       ELSE CASE importedName = "Button" /\ a.name = "variant" ->
                    IF defined /\ a.ty = "string"
                    THEN ok(<<jsxAttributeLiteral("variant", "string",
                                    IF startsWithOutline(a.val) THEN "outlined" ELSE "contained"),
                              jsxAttributeLiteral("color", "string",
                                    IF startsWithOutline(a.val) THEN OutlineColor[a.val] ELSE a.val)>>)
                    ELSE bad
              [] importedName = "Button" /\ a.name = "size" ->
                    ok(<<jsxAttributeLiteral("size", "string",
                            CASE defined /\ a.ty = "string" /\ a.val = "lg" -> "large"
                              [] defined /\ a.ty = "string" /\ a.val = "sm" -> "small"
                              [] OTHER -> "medium")>>)
              [] importedName = "Modal" /\ a.name = "size" ->
                    IF defined THEN ok(<<jsxAttributeLiteral("maxWidth", a.ty, a.val)>>) ELSE bad
              [] importedName = "Modal" /\ a.name = "keyboard" ->
                    ok(<<jsxAttributeLiteral("disableEscapeKeyDown", "boolean",
                            IF ~defined \/ (a.ty = "boolean" /\ a.val = "false")
                               \/ (a.ty = "string" /\ a.val = "") \/ (a.ty = "number" /\ a.val = "0")
                            THEN "true" ELSE "false")>>)
              [] OTHER -> bad   \* Card bg, border, text: j.identifier(Object.keys(...)) throws

\* lines 190-197: the children of the Title element become the children of its
\* parent, and the element is removed
G1_graft(ns, i, parent) ==
    [k \in 1..Len(ns) |->
        IF k = i THEN [ns[k] EXCEPT !.live = FALSE]
        ELSE IF ns[k].parent = parent /\ ns[k].live THEN [ns[k] EXCEPT !.live = FALSE]
        ELSE IF ns[k].parent = i /\ ns[k].live THEN [ns[k] EXCEPT !.parent = parent]
        ELSE ns[k]]

\* lines 246-255
G1_childrenToTitleProp(ns, i, attrs) ==
    LET texts == SelectSeq(Children(ns, i), LAMBDA c : ns[c].kind = "text")
    IN IF Len(texts) = 0 THEN [threw |-> TRUE, nodes |-> ns]
       ELSE [threw |-> FALSE,
             nodes |-> [k \in 1..Len(ns) |->
                          IF k = i
                          THEN [ns[k] EXCEPT !.hasClose = FALSE,
                                             !.attrs = Append(attrs,
                                                  jsxAttributeExpr("title", "JSXText", "expr", ns[texts[1]].txt))]
                          ELSE IF ns[k].parent = i THEN [ns[k] EXCEPT !.live = FALSE]
                          ELSE ns[k]]]

\* a traversal that reads the tag of the parent as it was parsed
G1_parentNameAsParsed(ast, st, parent) == NameOf(ast.nodes[parent].open)

\* line 191: parent.openingElement.name.name, read when the child is visited:
\* root.find(j.JSXElement) visits in document order, so the callback has
\* already run on the parent
G1_parentName(ast, st, parent) == NameOf(st.nodes[parent].open)

\* lines 151-267: the callback of root.find(j.JSXElement).forEach; ast is the tree
\* the paths were collected on (path.parent is the parent at that time)
G1_visit(ast, st, i) ==
    LET n == st.nodes[i]
        baseName == n.open.obj
        subComponentName == n.open.prop
        importedName == MapGet(st.rb, baseName)
        entry == G1_COMPONENT_MAP[importedName]
        isSub == subComponentName # ""
        mapping == IF isSub THEN entry.subComponents[subComponentName] ELSE entry.self
        parent == ast.nodes[i].parent
    IN IF ~MapHas(st.rb, baseName) \/ importedName \notin DOMAIN G1_COMPONENT_MAP THEN st
       ELSE IF isSub /\ subComponentName \notin DOMAIN entry.subComponents THEN st
       ELSE IF mapping.newName = ""
       THEN IF /\ importedName = "Modal" /\ subComponentName = "Title"
               /\ parent # 0
               /\ G1_parentName(ast, st, parent) = "DialogTitle"
            THEN [st EXCEPT !.changed = TRUE, !.nodes = G1_graft(st.nodes, i, parent)]
            ELSE [st EXCEPT !.changed = TRUE]
       ELSE LET res == Fold(LAMBDA acc, a :
                                LET r == G1_attr(importedName, mapping, a)
                                IN [threw |-> acc.threw \/ r.threw, out |-> acc.out \o r.out],
                            [threw |-> FALSE, out |-> <<>>], n.attrs)
                newAttributes == res.out \o mapping.props
                renamed == [n EXCEPT !.open = Ident(mapping.newName),
                                     !.close = IF n.hasClose THEN Ident(mapping.newName) ELSE @]
                st1 == [st EXCEPT !.changed = TRUE,
                                  !.nodes[i] = renamed,
                                  !.adds = SetAdd(@, mapping.newName)]
            IN IF res.threw THEN Throw(st1)
               ELSE IF mapping.transform = "childrenToTitleProp"
               THEN LET t == G1_childrenToTitleProp(st1.nodes, i, newAttributes)
                    IN [st1 EXCEPT !.nodes = t.nodes, !.threw = t.threw]
               ELSE [st1 EXCEPT !.nodes[i].attrs = newAttributes]

\* lines 122-128
G1_removeBootstrapImports(imps) == SelectSeq(imps, LAMBDA d : d.source # "react-bootstrap")

\* lines 94-119
G1_addMuiImports(imps, muiAdditions) ==
    LET newSpecifiers == sort(muiAdditions)
        muiImports == FindImports(imps, "@mui/material")
    IN IF Len(muiAdditions) = 0 THEN imps
       ELSE IF Len(muiImports) > 0
       THEN LET d == muiImports[1]
                existingSpecifiers == {imps[d].specs[k].local : k \in 1..Len(imps[d].specs)}
                specifiersToAdd == SelectSeq(newSpecifiers, LAMBDA x : x \notin existingSpecifiers)
            IN [imps EXCEPT ![d].specs = @ \o [k \in 1..Len(specifiersToAdd) |-> Named(specifiersToAdd[k])]]
       ELSE Append(imps, Decl("@mui/material", "Literal",
                                [k \in 1..Len(newSpecifiers) |-> Named(newSpecifiers[k])]))

\* lines 136-278
G1_transformer(ast) ==
    LET bootstrapImports == G1_getBootstrapImports(ast.imports)
        st0 == Start(ast) @@ [rb |-> bootstrapImports]
        st1 == ForEach(st0, SelectIdx(Len(ast.nodes), LAMBDA i : IsElem(ast.nodes, i)),
                       LAMBDA st, i : G1_visit(ast, st, i))
    IN IF Len(bootstrapImports) = 0 THEN [st0 EXCEPT !.ret = "null"]
       ELSE IF st1.threw THEN st1
       ELSE IF ~st1.changed THEN [st1 EXCEPT !.ret = "null"]
       ELSE [st1 EXCEPT !.imports = G1_addMuiImports(G1_removeBootstrapImports(@), st1.adds)]

-----------------------------------------------------------------------------
(* Strings.  A class string is a sequence of symbols: words (runs of word   *)
(* characters), "-" and " ".  Two words are never adjacent, so every word   *)
(* starts and ends at a word boundary (\b).                                 *)

SP == " "
HY == "-"
Digits == {"0", "1", "2", "3", "4", "5", "6", "7", "8", "9"}

\* String.prototype.trim
RECURSIVE trim(_)
trim(s) ==
    IF Len(s) = 0 THEN s
    ELSE IF s[1] = SP THEN trim(Tail(s))
    ELSE IF s[Len(s)] = SP THEN trim(SubSeq(s, 1, Len(s) - 1))
    ELSE s

\* split on runs of white space, without the empty strings
RECURSIVE Tokens(_)
Tokens(s) ==
    IF Len(s) = 0 THEN <<>>
    ELSE IF s[1] = SP THEN Tokens(Tail(s))
    ELSE LET ends == {k \in 1..Len(s) : s[k] = SP}
             e == IF ends = {} THEN Len(s) + 1 ELSE CHOOSE k \in ends : \A j \in ends : k <= j
         IN <<SubSeq(s, 1, e - 1)>> \o Tokens(SubSeq(s, e + 1, Len(s)))

\* tokens.join(' ')
Join(tokens) ==
    Fold(LAMBDA acc, t : IF Len(acc) = 0 THEN t ELSE acc \o <<SP>> \o t, <<>>, tokens)

\* A pattern /\bw-w-(\d)\b/g or /\bw-w\b/g is the sequence of its symbols, "\\d" for
\* the captured digit.
MatchesAt(s, pat, p) ==
    /\ p + Len(pat) - 1 <= Len(s)
    /\ \A k \in 1..Len(pat) :
          IF pat[k] = "\\d" THEN s[p + k - 1] \in Digits ELSE s[p + k - 1] = pat[k]

RECURSIVE MatchesFrom(_, _, _)
\* the start positions of the successive matches of a global regex, from position p
MatchesFrom(s, pat, p) ==
    IF p > Len(s) THEN <<>>
    ELSE IF MatchesAt(s, pat, p) THEN <<p>> \o MatchesFrom(s, pat, p + Len(pat))
    ELSE MatchesFrom(s, pat, p + 1)

RECURSIVE ReplaceFrom(_, _, _, _)
\* String.prototype.replace(re, by) for a global regex
ReplaceFrom(s, pat, by, p) ==
    IF p > Len(s) THEN <<>>
    ELSE IF MatchesAt(s, pat, p) THEN by \o ReplaceFrom(s, pat, by, p + Len(pat))
    ELSE <<s[p]>> \o ReplaceFrom(s, pat, by, p + 1)

\* Object.assign(sxObj, { key: value }): sxObj as an insertion-ordered object
Assign(sxObj, key, ty, val) ==
    IF \E k \in 1..Len(sxObj) : sxObj[k].key = key
    THEN [k \in 1..Len(sxObj) |-> IF sxObj[k].key = key THEN Prop(key, ty, val) ELSE sxObj[k]]
    ELSE Append(sxObj, Prop(key, ty, val))

\* a rule { re, sx }: val = "" when the value is the captured digit
Rule(pat, key, val) == [pat |-> pat, key |-> key, val |-> val]

\* lines 351-357 (CL) and 494-501 (G2): every rule in turn collects its matches
\* into sxObj and is then cut out of the string
ApplyRules(rules, classString, by) ==
    LET collect(sxObj, cls, rule) ==
            Fold(LAMBDA o, m :
                    IF rule.val = ""
                    THEN Assign(o, rule.key, "number", cls[m + Len(rule.pat) - 1])
                    ELSE Assign(o, rule.key, "string", rule.val),
                 sxObj, MatchesFrom(cls, rule.pat, 1))
    IN Fold(LAMBDA r, rule :
               [sxObj |-> collect(r.sxObj, r.cls, rule),
                cls |-> trim(ReplaceFrom(r.cls, rule.pat, by, 1))],
            [sxObj |-> <<>>, cls |-> classString], rules)

\* `@mui/material/${name}`, on the names the transformers use
MuiPaths ==
    [Alert |-> "@mui/material/Alert", AppBar |-> "@mui/material/AppBar",
     Badge |-> "@mui/material/Badge", Box |-> "@mui/material/Box",
     Breadcrumbs |-> "@mui/material/Breadcrumbs", Button |-> "@mui/material/Button",
     ButtonGroup |-> "@mui/material/ButtonGroup", Card |-> "@mui/material/Card",
     CardActions |-> "@mui/material/CardActions", CardContent |-> "@mui/material/CardContent",
     CardHeader |-> "@mui/material/CardHeader", CardMedia |-> "@mui/material/CardMedia",
     Checkbox |-> "@mui/material/Checkbox",
     CircularProgress |-> "@mui/material/CircularProgress",
     Collapse |-> "@mui/material/Collapse", Container |-> "@mui/material/Container",
     Dialog |-> "@mui/material/Dialog", DialogActions |-> "@mui/material/DialogActions",
     DialogContent |-> "@mui/material/DialogContent",
     DialogTitle |-> "@mui/material/DialogTitle", FormControl |-> "@mui/material/FormControl",
     FormGroup |-> "@mui/material/FormGroup",
     FormHelperText |-> "@mui/material/FormHelperText", Grid |-> "@mui/material/Grid",
     IconButton |-> "@mui/material/IconButton", Input |-> "@mui/material/Input",
     InputLabel |-> "@mui/material/InputLabel",
     LinearProgress |-> "@mui/material/LinearProgress", Menu |-> "@mui/material/Menu",
     Modal |-> "@mui/material/Modal", Pagination |-> "@mui/material/Pagination",
     Popover |-> "@mui/material/Popover", Select |-> "@mui/material/Select",
     Tab |-> "@mui/material/Tab", Table |-> "@mui/material/Table",
     TableBody |-> "@mui/material/TableBody", TableCell |-> "@mui/material/TableCell",
     TableHead |-> "@mui/material/TableHead", TableRow |-> "@mui/material/TableRow",
     Tabs |-> "@mui/material/Tabs", TextField |-> "@mui/material/TextField",
     Toolbar |-> "@mui/material/Toolbar", Tooltip |-> "@mui/material/Tooltip",
     Typography |-> "@mui/material/Typography", styles |-> "@mui/material/styles"]
MuiPath(name) == MuiPaths[name]
\* src.startsWith('@mui/material/')
IsMuiPath(src) == \E n \in DOMAIN MuiPaths : MuiPaths[n] = src
\* src.includes('bootstrap') and src.includes('bootstrap/dist/css'), on the sources of the inputs
includesBootstrap(src) ==
    src \in {"react-bootstrap", "bootstrap/dist/css/bootstrap.min.css", "./bootstrap-utils"}
includesBootstrapCss(src) == src = "bootstrap/dist/css/bootstrap.min.css"

-----------------------------------------------------------------------------
(* CL: js/bootstrap_mui_claude.js *)

CL_BUTTON_VARIANTS ==
    [primary |-> [variant |-> "contained", color |-> "primary"],
     secondary |-> [variant |-> "contained", color |-> "secondary"],
     success |-> [variant |-> "contained", color |-> "success"],
     danger |-> [variant |-> "contained", color |-> "error"],
     warning |-> [variant |-> "contained", color |-> "warning"],
     info |-> [variant |-> "contained", color |-> "info"],
     light |-> [variant |-> "outlined", color |-> "inherit"],
     dark |-> [variant |-> "contained", color |-> "inherit"],
     link |-> [variant |-> "text", color |-> "primary"]] @@
    ("outline-primary" :> [variant |-> "outlined", color |-> "primary"]) @@
    ("outline-secondary" :> [variant |-> "outlined", color |-> "secondary"])

CL_SIZE_MAP == [sm |-> "small", lg |-> "large"]

CL_ALERT_SEVERITY ==
    [primary |-> "info", secondary |-> "info", success |-> "success",
     danger |-> "error", warning |-> "warning", info |-> "info"]

CL_CLASS_TO_SX ==
    <<Rule(<<"mb", HY, "\\d">>, "mb", ""), Rule(<<"mt", HY, "\\d">>, "mt", ""),
      Rule(<<"ms", HY, "\\d">>, "ml", ""), Rule(<<"me", HY, "\\d">>, "mr", ""),
      Rule(<<"mx", HY, "\\d">>, "mx", ""), Rule(<<"my", HY, "\\d">>, "my", ""),
      Rule(<<"p", HY, "\\d">>, "p", ""), Rule(<<"px", HY, "\\d">>, "px", ""),
      Rule(<<"py", HY, "\\d">>, "py", ""), Rule(<<"pt", HY, "\\d">>, "pt", ""),
      Rule(<<"pb", HY, "\\d">>, "pb", ""),
      Rule(<<"d", HY, "flex">>, "display", "flex"), Rule(<<"d", HY, "none">>, "display", "none"),
      Rule(<<"text", HY, "center">>, "textAlign", "center"),
      Rule(<<"justify", HY, "content", HY, "center">>, "justifyContent", "center"),
      Rule(<<"align", HY, "items", HY, "center">>, "alignItems", "center"),
      Rule(<<"flex", HY, "column">>, "flexDirection", "column"),
      Rule(<<"gap", HY, "\\d">>, "gap", "")>>

\* lines 74-90
CL_addMUIImport(st, componentName) ==
    LET importPath == MuiPath(componentName)
        importDecl == Decl(importPath, "StringLiteral",
                           <<Spec_("default", "default", componentName)>>)
    IN IF Len(FindImports(st.imports, importPath)) = 0
       THEN [st EXCEPT !.imports = <<importDecl>> \o @]
       ELSE st

\* lines 92-123, on the attributes of the element
CL_mergeSxProp(attrs, sxObj) ==
    LET found == SelectIdx(Len(attrs), LAMBDA k : attrs[k].name = "sx")
        sxAttr == attrs[found[1]]
    IN IF Len(sxObj) = 0 THEN attrs
       ELSE IF Len(found) = 0
       THEN Append(attrs, jsxAttributeObject("sx", sxObj))
       ELSE IF sxAttr.form = "cont" /\ sxAttr.nt = "ObjectExpression"
       THEN [attrs EXCEPT ![found[1]].props =
                Fold(LAMBDA props, e :
                        IF \E k \in 1..Len(props) : KeyName(props[k]) = e.key
                        THEN props ELSE Append(props, e),
                     @, sxObj)]
       ELSE attrs

\* lines 125-133
CL_removeBootstrapImports(st) ==
    [st EXCEPT !.imports = SelectSeq(@, LAMBDA d :
                                ~(d.source = "react-bootstrap" \/ includesBootstrapCss(d.source))),
               !.changed = TRUE]

\* find(j.JSXElement, { openingElement: { name: { type: 'JSXIdentifier', name } } })
FindElements(ns, name) ==
    SelectIdx(Len(ns), LAMBDA i : IsElem(ns, i) /\ ~IsMember(ns[i].open) /\ ns[i].open.obj = name)

\* lines 142-180
CL_button(st, i) ==
    LET attrs == st.nodes[i].attrs
        isLit(a) == a.form = "lit" /\ a.nt = "Literal"
        hasVariant == \E k \in 1..Len(attrs) : attrs[k].name = "variant" /\ isLit(attrs[k])
        one(a) ==
            IF a.name = "variant" /\ isLit(a)
            THEN IF a.ty = "string" /\ a.val \in DOMAIN CL_BUTTON_VARIANTS
                 THEN <<jsxAttributeStringLiteral("variant", CL_BUTTON_VARIANTS[a.val].variant),
                        jsxAttributeStringLiteral("color", CL_BUTTON_VARIANTS[a.val].color)>>
                 ELSE <<>>
            ELSE IF a.name = "size" /\ isLit(a)
            THEN IF a.ty = "string" /\ a.val \in DOMAIN CL_SIZE_MAP
                 THEN <<jsxAttributeStringLiteral("size", CL_SIZE_MAP[a.val])>>
                 ELSE <<a>>
            ELSE <<a>>
        mapped == Concat([k \in 1..Len(attrs) |-> one(attrs[k])])
        newAttrs == IF hasVariant THEN mapped
                    ELSE <<jsxAttributeStringLiteral("variant", "contained")>> \o mapped
    IN CL_addMUIImport([st EXCEPT !.nodes[i].attrs = newAttrs, !.changed = TRUE], "Button")

\* lines 186-197
CL_alert(st, i) ==
    LET one(a) ==
            IF a.name = "variant" /\ a.form = "lit" /\ a.nt = "Literal"
            THEN jsxAttributeStringLiteral("severity",
                    IF a.ty = "string" /\ a.val \in DOMAIN CL_ALERT_SEVERITY
                    THEN CL_ALERT_SEVERITY[a.val] ELSE "info")
            ELSE a
    IN CL_addMUIImport([st EXCEPT !.nodes[i].attrs = [k \in 1..Len(@) |-> one(@[k])],
                                  !.changed = TRUE], "Alert")

\* lines 214-235: one child of the Modal; child.closingElement.name throws on a
\* self-closing child
CL_modalChild(st, c) ==
    LET child == st.nodes[c]
        prop == child.open.prop
        newName == CASE prop \in {"Header", "Title"} -> "DialogTitle"
                     [] prop = "Body" -> "DialogContent"
                     [] prop = "Footer" -> "DialogActions"
                     [] OTHER -> ""
    IN IF child.kind # "elem" \/ ~IsMember(child.open) \/ child.open.obj # "Modal" \/ newName = ""
       THEN st
       ELSE IF ~child.hasClose
       THEN Throw([st EXCEPT !.nodes[c].open = Ident(newName)])
       ELSE CL_addMUIImport([st EXCEPT !.nodes[c].open = Ident(newName),
                                       !.nodes[c].close = Ident(newName)], newName)

\* lines 203-239
CL_modal(st, i) ==
    LET n == st.nodes[i]
        rename(a) == IF a.name = "show" THEN [a EXCEPT !.name = "open"]
                     ELSE IF a.name = "onHide" THEN [a EXCEPT !.name = "onClose"]
                     ELSE a
        st1 == [st EXCEPT !.nodes[i].open = Ident("Dialog"),
                          !.nodes[i].close = IF n.hasClose THEN Ident("Dialog") ELSE @,
                          !.nodes[i].attrs = [k \in 1..Len(@) |-> rename(@[k])]]
        st2 == ForEach(st1, Children(st1.nodes, i), CL_modalChild)
    IN IF st2.threw THEN st2
       ELSE CL_addMUIImport([st2 EXCEPT !.changed = TRUE], "Dialog")

HasAttr(attrs, name) == \E k \in 1..Len(attrs) : attrs[k].name = name

\* lines 246-260
CL_row(st, i) ==
    LET n == st.nodes[i]
        a1 == IF HasAttr(n.attrs, "container") THEN n.attrs
              ELSE Append(n.attrs, jsxAttributeNoValue("container"))
        a2 == IF HasAttr(a1, "spacing") THEN a1
              ELSE Append(a1, jsxAttributeExpr("spacing", "NumericLiteral", "number", "2"))
    IN CL_addMUIImport([st EXCEPT !.nodes[i].open = Ident("Grid"),
                                  !.nodes[i].close = IF n.hasClose THEN Ident("Grid") ELSE @,
                                  !.nodes[i].attrs = a2,
                                  !.changed = TRUE], "Grid")

\* lines 265-276
CL_col(st, i) ==
    LET n == st.nodes[i]
    IN CL_addMUIImport([st EXCEPT !.nodes[i].open = Ident("Grid"),
                                  !.nodes[i].close = IF n.hasClose THEN Ident("Grid") ELSE @,
                                  !.nodes[i].attrs = IF HasAttr(@, "item") THEN @
                                                     ELSE <<jsxAttributeNoValue("item")>> \o @,
                                  !.changed = TRUE], "Grid")

\* lines 282-295
CL_container(st, i) ==
    LET attrs == st.nodes[i].attrs
        found == SelectIdx(Len(attrs), LAMBDA k : attrs[k].name = "fluid")
    IN CL_addMUIImport(
          IF Len(found) > 0
          THEN [st EXCEPT !.nodes[i].attrs =
                              Append(RemoveAt(attrs, found[1]),
                                     jsxAttributeExpr("maxWidth", "BooleanLiteral", "boolean", "false")),
                          !.changed = TRUE]
          ELSE st, "Container")


Rename(st, i, newName) ==
    [st EXCEPT !.nodes[i].open = Ident(newName),
               !.nodes[i].close = IF st.nodes[i].hasClose THEN Ident(newName) ELSE @]

\* lines 299-327
CL_card(st, i) ==
    LET name == st.nodes[i].open
        prop == name.prop
    IN IF IsMember(name) /\ name.obj = "Card"
       THEN CASE prop = "Body" ->
                    CL_addMUIImport([Rename(st, i, "CardContent") EXCEPT !.changed = TRUE], "CardContent")
              [] prop = "Header" ->
                    CL_addMUIImport([Rename(st, i, "CardHeader") EXCEPT !.changed = TRUE], "CardHeader")
              [] prop = "Title" ->
                    CL_addMUIImport(
                        [Rename(st, i, "Typography") EXCEPT
                            !.nodes[i].attrs = @ \o <<jsxAttributeStringLiteral("variant", "h5"),
                                                      jsxAttributeStringLiteral("component", "div")>>,
                            !.changed = TRUE], "Typography")
              [] OTHER -> st
       ELSE IF ~IsMember(name) /\ name.obj = "Card" THEN CL_addMUIImport(st, "Card")
       ELSE st

\* lines 331-340
CL_formControl(st, i) ==
    LET name == st.nodes[i].open
    IN IF IsMember(name) /\ name.obj = "Form" /\ name.prop = "Control"
       THEN CL_addMUIImport([Rename(st, i, "TextField") EXCEPT !.changed = TRUE], "TextField")
       ELSE st

\* lines 344-372: the className attribute of element i
CL_className(st, i) ==
    LET attrs == st.nodes[i].attrs
        found == SelectIdx(Len(attrs), LAMBDA k : attrs[k].name = "className")
        val == attrs[found[1]]
        r == ApplyRules(CL_CLASS_TO_SX, val.cls, <<>>)
        merged == CL_mergeSxProp(attrs, r.sxObj)
    IN IF Len(found) = 0 \/ val.form # "lit" \/ val.nt # "Literal" \/ val.ty # "string" THEN st
       ELSE IF Len(r.sxObj) = 0 THEN st
       ELSE [st EXCEPT !.nodes[i].attrs =
                          IF Len(r.cls) > 0
                          THEN [k \in 1..Len(merged) |->
                                   IF k = found[1]
                                   THEN [merged[k] EXCEPT !.cls = r.cls, !.nt = "StringLiteral"]
                                   ELSE merged[k]]
                          ELSE SelectSeq(merged, LAMBDA a : a.name # "className"),
                       !.changed = TRUE]

AllElements(ns) == SelectIdx(Len(ns), LAMBDA i : IsElem(ns, i))

\* a pass: find() on the tree as it is now, then forEach
Pass(st, Find(_), Visit(_, _)) == IF st.threw THEN st ELSE ForEach(st, Find(st.nodes), Visit)

\* lines 8-389
CL_transformer(ast) ==
    LET s0 == CL_removeBootstrapImports(Start(ast))
        s1 == Pass(s0, LAMBDA ns : FindElements(ns, "Button"), CL_button)
        s2 == Pass(s1, LAMBDA ns : FindElements(ns, "Alert"), CL_alert)
        s3 == Pass(s2, LAMBDA ns : FindElements(ns, "Modal"), CL_modal)
        s4 == Pass(s3, LAMBDA ns : FindElements(ns, "Row"), CL_row)
        s5 == Pass(s4, LAMBDA ns : FindElements(ns, "Col"), CL_col)
        s6 == Pass(s5, LAMBDA ns : FindElements(ns, "Container"), CL_container)
        s7 == Pass(s6, AllElements, CL_card)
        s8 == Pass(s7, AllElements, CL_formControl)
        s9 == Pass(s8, AllElements, CL_className)
    IN [s9 EXCEPT !.ret = IF s9.changed THEN "printed" ELSE "null"]

-----------------------------------------------------------------------------
(* G2: js/react-bootstrap-to-mui_gemini2.js, the second transformer (lines 279-1151) *)

\* lines 320-329
G2_bootstrapImports(imps) ==
    Fold(LAMBDA m, d :
            Fold(LAMBDA m2, sp : IF sp.kind = "named" THEN SetAdd(m2, sp.local) ELSE m2,
                 m, imps[d].specs),
         <<>>, FindImports(imps, "react-bootstrap"))

G2_addMuiImport(st, name) == [st EXCEPT !.adds = SetAdd(@, name)]

\* lines 364-386
G2_insertMuiImports(st) ==
    LET kept == SelectSeq(st.imports, LAMBDA d : ~IsMuiPath(d.source))
        importNodes == [k \in 1..Len(st.adds) |->
                           Decl(MuiPath(st.adds[k]), "Literal",
                                <<Spec_("default", "default", st.adds[k])>>)]
    IN [st EXCEPT !.imports = importNodes \o kept]

\* lines 393-431.  openingElement: the node the caller passes, with the value of its
\* attributes field (hasAttributes: whether the node has one)
G2_mergeSxAttribute(openingElement, extraObj) ==
    LET attrs == IF openingElement.hasAttributes THEN openingElement.attributes ELSE <<>>
        found == SelectIdx(Len(attrs), LAMBDA k : attrs[k].name = "sx")
        sxAttr == attrs[found[1]]
    IN IF Len(found) = 0
       THEN IF openingElement.hasAttributes
            THEN [threw |-> FALSE, attributes |-> Append(attrs, jsxAttributeObject("sx", extraObj))]
            ELSE [threw |-> TRUE, attributes |-> attrs]    \* undefined.push
       ELSE IF sxAttr.form = "cont" /\ sxAttr.nt = "ObjectExpression"
       THEN [threw |-> FALSE,
             attributes |-> [attrs EXCEPT ![found[1]].props =
                                Fold(LAMBDA props, e :
                                        IF \E k \in 1..Len(props) : KeyName(props[k]) = e.key
                                        THEN props ELSE Append(props, e),
                                     @, extraObj)]]
       ELSE [threw |-> FALSE,
             attributes |-> [attrs EXCEPT ![found[1]] = jsxAttributeObject("sx", extraObj)]]

\* lines 442-493
G2_rules ==
    <<Rule(<<"mb", HY, "\\d">>, "mb", ""), Rule(<<"mt", HY, "\\d">>, "mt", ""),
      Rule(<<"ms", HY, "\\d">>, "ml", ""), Rule(<<"me", HY, "\\d">>, "mr", ""),
      Rule(<<"mx", HY, "\\d">>, "mx", ""), Rule(<<"my", HY, "\\d">>, "my", ""),
      Rule(<<"p", HY, "\\d">>, "p", ""), Rule(<<"px", HY, "\\d">>, "px", ""),
      Rule(<<"py", HY, "\\d">>, "py", ""), Rule(<<"pt", HY, "\\d">>, "pt", ""),
      Rule(<<"pb", HY, "\\d">>, "pb", ""), Rule(<<"ps", HY, "\\d">>, "pl", ""),
      Rule(<<"pe", HY, "\\d">>, "pr", ""), Rule(<<"gap", HY, "\\d">>, "gap", ""),
      Rule(<<"d", HY, "flex">>, "display", "flex"), Rule(<<"d", HY, "block">>, "display", "block"),
      Rule(<<"d", HY, "inline">>, "display", "inline"), Rule(<<"d", HY, "none">>, "display", "none"),
      Rule(<<"justify", HY, "content", HY, "center">>, "justifyContent", "center"),
      Rule(<<"justify", HY, "content", HY, "between">>, "justifyContent", "space-between"),
      Rule(<<"justify", HY, "content", HY, "around">>, "justifyContent", "space-around"),
      Rule(<<"justify", HY, "content", HY, "end">>, "justifyContent", "flex-end"),
      Rule(<<"align", HY, "items", HY, "center">>, "alignItems", "center"),
      Rule(<<"align", HY, "items", HY, "end">>, "alignItems", "flex-end"),
      Rule(<<"align", HY, "items", HY, "start">>, "alignItems", "flex-start"),
      Rule(<<"flex", HY, "column">>, "flexDirection", "column"),
      Rule(<<"text", HY, "center">>, "textAlign", "center"),
      Rule(<<"text", HY, "start">>, "textAlign", "left"),
      Rule(<<"text", HY, "end">>, "textAlign", "right"),
      Rule(<<"text", HY, "primary">>, "color", "primary.main"),
      Rule(<<"text", HY, "secondary">>, "color", "secondary.main"),
      Rule(<<"text", HY, "success">>, "color", "success.main"),
      Rule(<<"text", HY, "danger">>, "color", "error.main"),
      Rule(<<"text", HY, "warning">>, "color", "warning.main"),
      Rule(<<"text", HY, "info">>, "color", "info.main"),
      Rule(<<"text", HY, "muted">>, "color", "text.secondary"),
      Rule(<<"bg", HY, "primary">>, "bgcolor", "primary.main"),
      Rule(<<"bg", HY, "secondary">>, "bgcolor", "secondary.main"),
      Rule(<<"bg", HY, "success">>, "bgcolor", "success.main"),
      Rule(<<"bg", HY, "danger">>, "bgcolor", "error.main"),
      Rule(<<"bg", HY, "warning">>, "bgcolor", "warning.main"),
      Rule(<<"bg", HY, "info">>, "bgcolor", "info.main"),
      Rule(<<"bg", HY, "light">>, "bgcolor", "grey.100"),
      Rule(<<"bg", HY, "dark">>, "bgcolor", "grey.900")>>

\* lines 439-503
G2_extractSxFromClasses(classString) ==
    LET r == ApplyRules(G2_rules, classString, <<SP>>)
    IN [sxObj |-> r.sxObj, remainingClass |-> trim(r.cls)]

\* lines 535-552
G2_bootstrapVariantMap ==
    [primary |-> [variant |-> "contained", color |-> "primary"],
     secondary |-> [variant |-> "contained", color |-> "secondary"],
     success |-> [variant |-> "contained", color |-> "success"],
     danger |-> [variant |-> "contained", color |-> "error"],
     warning |-> [variant |-> "contained", color |-> "warning"],
     info |-> [variant |-> "contained", color |-> "info"],
     light |-> [variant |-> "outlined", color |-> "inherit"],
     dark |-> [variant |-> "outlined", color |-> "inherit"],
     link |-> [variant |-> "text", color |-> "primary"]] @@
    ("outline-primary" :> [variant |-> "outlined", color |-> "primary"]) @@
    ("outline-secondary" :> [variant |-> "outlined", color |-> "secondary"]) @@
    ("outline-success" :> [variant |-> "outlined", color |-> "success"]) @@
    ("outline-danger" :> [variant |-> "outlined", color |-> "error"]) @@
    ("outline-warning" :> [variant |-> "outlined", color |-> "warning"]) @@
    ("outline-info" :> [variant |-> "outlined", color |-> "info"])
G2_sizeMap == [sm |-> "small", lg |-> "large"]

\* the text of a token: of one word, or of the form outline-<word>
TokenText(t) ==
    CASE Len(t) = 0 -> ""
      [] Len(t) = 1 -> t[1]
      [] Len(t) = 3 /\ t[1] = "outline" /\ t[2] = HY
            /\ \E v \in DOMAIN OutlineColor : OutlineColor[v] = t[3] ->
            CHOOSE v \in DOMAIN OutlineColor : OutlineColor[v] = t[3]
      [] OTHER -> "<other>"

\* the class string lines 566-573, 795-802 and 1069-1073 read from a className value
G2_classString(a) ==
    IF a.nt = "Literal" /\ a.form \in {"lit", "cont"} /\ a.ty = "string" THEN a.cls ELSE <<>>

Last(s) == s[Len(s)]


\* lines 510-608
G2_transformButton(st, i) ==
    LET attrs == st.nodes[i].attrs
        named(n) == SelectSeq(attrs, LAMBDA a : a.name = n)
        otherAttrs == SelectSeq(attrs, LAMBDA a : a.name \notin {"variant", "size", "className"})
        literal(as) == IF Len(as) > 0 /\ Last(as).form = "lit" /\ Last(as).nt = "Literal"
                       THEN Last(as).val ELSE ""
        propVariant == literal(named("variant"))
        propSize == literal(named("size"))
        classes == IF Len(named("className")) > 0 /\ Last(named("className")).form # "none"
                   THEN Tokens(G2_classString(Last(named("className"))))
                   ELSE <<>>
        btn == SelectSeq(classes, LAMBDA c : Len(c) >= 2 /\ c[1] = "btn" /\ c[2] = HY)
        rest(c) == TokenText(SubSeq(c, 3, Len(c)))
        \* the first btn-* token whose rest is not empty
        fromClass == SelectSeq(btn, LAMBDA c : rest(c) # "")
        bsVariant == IF propVariant # "" THEN propVariant
                     ELSE IF Len(fromClass) > 0 THEN rest(fromClass[1]) ELSE ""
        sized == SelectSeq(btn, LAMBDA c : rest(c) \in {"sm", "lg"})
        bsSize == IF propSize # "" THEN propSize
                  ELSE IF Len(sized) > 0 THEN rest(sized[1]) ELSE ""
        mapped == bsVariant \in DOMAIN G2_bootstrapVariantMap
        newAttrs ==
            (IF bsVariant = "" THEN <<jsxAttributeLiteral("variant", "string", "text")>> ELSE <<>>)
            \o otherAttrs
            \o (IF mapped
                THEN <<jsxAttributeLiteral("variant", "string", G2_bootstrapVariantMap[bsVariant].variant),
                       jsxAttributeLiteral("color", "string", G2_bootstrapVariantMap[bsVariant].color)>>
                ELSE <<>>)
            \o (IF bsSize \in DOMAIN G2_sizeMap
                THEN <<jsxAttributeLiteral("size", "string", G2_sizeMap[bsSize])>> ELSE <<>>)
    IN G2_addMuiImport([st EXCEPT !.nodes[i].attrs = newAttrs], "Button")

G2_variantMap ==
    [primary |-> "info", secondary |-> "info", success |-> "success", danger |-> "error",
     warning |-> "warning", info |-> "info", light |-> "info", dark |-> "info"]

\* lines 615-649
G2_transformAlert(st, i) ==
    LET one(a) ==
            IF a.name = "variant"
            THEN jsxAttributeLiteral("severity", "string",
                    IF a.form = "lit" /\ a.nt = "Literal" /\ a.ty = "string"
                       /\ a.val \in DOMAIN G2_variantMap
                    THEN G2_variantMap[a.val] ELSE "info")
            ELSE a
    IN G2_addMuiImport([st EXCEPT !.nodes[i].attrs = [k \in 1..Len(@) |-> one(@[k])]], "Alert")

\* lines 675-705: a Modal.Header, Title, Body or Footer child is replaced by a new
\* element without attributes that takes its children
G2_modalChild(st, c) ==
    LET child == st.nodes[c]
        prop == child.open.prop
        newName == CASE prop \in {"Header", "Title"} -> "DialogTitle"
                     [] prop = "Body" -> "DialogContent"
                     [] prop = "Footer" -> "DialogActions"
                     [] OTHER -> ""
    IN IF child.kind # "elem" \/ ~IsMember(child.open) \/ child.open.obj # "Modal" \/ newName = ""
       THEN st
       ELSE [st EXCEPT !.nodes[c] = [child EXCEPT !.open = Ident(newName), !.close = Ident(newName),
                                                  !.hasClose = TRUE, !.attrs = <<>>]]

\* lines 654-710
G2_transformModal(st, i) ==
    LET rename(a) == IF a.name = "show" THEN [a EXCEPT !.name = "open"]
                     ELSE IF a.name = "onHide" THEN [a EXCEPT !.name = "onClose"]
                     ELSE a
        st1 == [Rename(st, i, "Dialog") EXCEPT !.nodes[i].attrs = [k \in 1..Len(@) |-> rename(@[k])]]
        st2 == ForEach(st1, Children(st1.nodes, i), G2_modalChild)
    IN Fold(G2_addMuiImport, st2, <<"Dialog", "DialogTitle", "DialogContent", "DialogActions">>)

\* lines 717-737
G2_transformContainer(st, i) ==
    LET one(a) ==
            IF a.name = "fluid"
            THEN IF a.form = "none" \/ (a.form = "lit" /\ a.nt = "Literal" /\ a.ty = "boolean" /\ a.val = "true")
                 THEN <<jsxAttributeExpr("maxWidth", "BooleanLiteral", "boolean", "false")>>
                 ELSE <<>>
            ELSE <<a>>
    IN G2_addMuiImport([st EXCEPT !.nodes[i].attrs = Concat([k \in 1..Len(@) |-> one(@[k])])],
                       "Container")

\* lines 751-765
G2_row(st, i) ==
    G2_addMuiImport([Rename(st, i, "Grid") EXCEPT
                        !.nodes[i].attrs = IF HasAttr(@, "container") THEN @
                                           ELSE Append(@, jsxAttributeNoValue("container"))], "Grid")

Breakpoints == {"xs", "sm", "md", "lg", "xl"}
AllDigits(w) == w \in DigitStrings

\* lines 804-828: the attributes a class token gives
G2_colToken(tok) ==
    (IF Len(tok) = 3 /\ tok[1] = "col" /\ tok[2] = HY /\ AllDigits(tok[3])
     THEN <<jsxAttributeExpr("xs", "Literal", "number", tok[3])>> ELSE <<>>)
    \o
    (IF Len(tok) = 5 /\ tok[1] = "col" /\ tok[2] = HY /\ tok[3] \in Breakpoints
        /\ tok[4] = HY /\ AllDigits(tok[5])
     THEN <<jsxAttributeExpr(tok[3], "Literal", "number", tok[5])>> ELSE <<>>)

\* lines 771-832; classAttr.value.type throws on a className without a value
G2_col(st, i) ==
    LET attrs == st.nodes[i].attrs
        classAttrs == SelectSeq(attrs, LAMBDA a : a.name = "className")
        tokens == Tokens(G2_classString(classAttrs[1]))
        newAttrs == <<jsxAttributeNoValue("item")>>
                    \o SelectSeq(attrs, LAMBDA a : a.name \in Breakpoints)
                    \o (IF Len(classAttrs) > 0
                        THEN Concat([k \in 1..Len(tokens) |-> G2_colToken(tokens[k])])
                        ELSE <<>>)
    IN IF Len(classAttrs) > 0 /\ classAttrs[1].form = "none"
       THEN Throw(Rename(st, i, "Grid"))
       ELSE G2_addMuiImport([Rename(st, i, "Grid") EXCEPT !.nodes[i].attrs = newAttrs], "Grid")

IsTag(n, obj, prop) == n.kind = "elem" /\ n.open = Tag(obj, prop)

\* lines 838-861
G2_formControl(st, i) ==
    IF IsTag(st.nodes[i], "Form", "Control")
    THEN G2_addMuiImport(Rename(st, i, "TextField"), "TextField")
    ELSE st

\* lines 897-919
G2_brand(st, b) ==
    [Rename(st, b, "Typography") EXCEPT
        !.nodes[b].attrs = @ \o <<jsxAttributeLiteral("variant", "string", "h6"),
                                  jsxAttributeLiteral("component", "string", "div")>>]

\* lines 874-923: the children move under a new Toolbar element
G2_navbar(st, i) ==
    LET ns == st.nodes
        kids == Children(ns, i)
        hasToolbar == \E k \in 1..Len(kids) : IsTag(ns[kids[k]], "Toolbar", "")
        toolbar == Len(ns) + 1
        wrapped == [k \in 1..(Len(ns) + 1) |->
                       IF k = toolbar THEN Elem(Ident("Toolbar"), TRUE, <<>>, i)
                       ELSE IF ns[k].live /\ ns[k].parent = i THEN [ns[k] EXCEPT !.parent = toolbar]
                       ELSE ns[k]]
        st1 == Rename(st, i, "AppBar")
        st2 == IF hasToolbar THEN st1 ELSE [st1 EXCEPT !.nodes = [k \in 1..Len(wrapped) |->
                                                   IF k = i THEN st1.nodes[i] ELSE wrapped[k]]]
        st3 == ForEach(st2, SelectIdx(Len(st2.nodes), LAMBDA k : IsTag(st2.nodes[k], "Navbar", "Brand")),
                       G2_brand)
    IN Fold(G2_addMuiImport, st3, <<"AppBar", "Toolbar", "Typography">>)

\* lines 932-1013
G2_card(st, i) ==
    LET name == st.nodes[i].open
        prop == name.prop
        push(x, attrs) == [x EXCEPT !.nodes[i].attrs = @ \o attrs]
    IN IF IsMember(name) /\ name.obj = "Card"
       THEN CASE prop = "Body" -> G2_addMuiImport(Rename(st, i, "CardContent"), "CardContent")
              [] prop = "Header" -> G2_addMuiImport(Rename(st, i, "CardHeader"), "CardHeader")
              [] prop = "Footer" -> G2_addMuiImport(Rename(st, i, "CardActions"), "CardActions")
              [] prop = "Title" ->
                    G2_addMuiImport(push(Rename(st, i, "Typography"),
                                         <<jsxAttributeLiteral("variant", "string", "h5"),
                                           jsxAttributeLiteral("component", "string", "div")>>),
                                    "Typography")
              [] prop = "Text" ->
                    G2_addMuiImport(push(Rename(st, i, "Typography"),
                                         <<jsxAttributeLiteral("variant", "string", "body2"),
                                           jsxAttributeLiteral("color", "string", "text.secondary")>>),
                                    "Typography")
              [] OTHER -> st
       ELSE IF ~IsMember(name) /\ name.obj = "Card" THEN G2_addMuiImport(st, "Card")
       ELSE st

\* lines 1024-1030
G2_spinner(st, i) == G2_addMuiImport(Rename(st, i, "CircularProgress"), "CircularProgress")

\* lines 1065-1090: the className attributes of element i.  opening is the JSXElement
\* (attrPath.parent is the opening element), and a parsed JSXElement has no
\* attributes field
G2_className(st, i) ==
    LET attrs == st.nodes[i].attrs
        found == SelectIdx(Len(attrs), LAMBDA k : attrs[k].name = "className")
        val == attrs[found[1]]
        r == G2_extractSxFromClasses(G2_classString(val))
        opening == [hasAttributes |-> FALSE, attributes |-> <<>>]
        merged == G2_mergeSxAttribute(opening, r.sxObj)
    IN IF Len(found) = 0 \/ val.form = "none" \/ Len(r.sxObj) = 0 THEN st
       ELSE IF merged.threw THEN Throw(st)
       ELSE IF Len(r.remainingClass) > 0
       THEN [st EXCEPT !.nodes[i].attrs[found[1]] =
                          [jsxAttributeLiteral("className", "string", "") EXCEPT !.cls = r.remainingClass]]
       ELSE st

\* lines 310-1151
G2_transformer(ast) ==
    LET bootstrapImports == G2_bootstrapImports(ast.imports)
        has(n) == n \in Elems(bootstrapImports)
        s0 == [Start(ast) EXCEPT
                  !.imports = SelectSeq(@, LAMBDA d : ~includesBootstrap(d.source))]
        s1 == Pass(s0, LAMBDA ns : FindElements(ns, "Button"),
                   LAMBDA st, i : IF has("Button") THEN G2_transformButton(st, i) ELSE st)
        s2 == Pass(s1, LAMBDA ns : FindElements(ns, "Alert"),
                   LAMBDA st, i : IF has("Alert") THEN G2_transformAlert(st, i) ELSE st)
        s3 == Pass(s2, LAMBDA ns : FindElements(ns, "Modal"),
                   LAMBDA st, i : IF has("Modal") THEN G2_transformModal(st, i) ELSE st)
        s4 == Pass(s3, LAMBDA ns : FindElements(ns, "Container"),
                   LAMBDA st, i : IF has("Container") THEN G2_transformContainer(st, i) ELSE st)
        s5 == Pass(s4, LAMBDA ns : FindElements(ns, "Row"), G2_row)
        s6 == Pass(s5, LAMBDA ns : FindElements(ns, "Col"), G2_col)
        s7 == Pass(s6, AllElements, G2_formControl)
        s8 == Pass(s7, LAMBDA ns : FindElements(ns, "Navbar"), G2_navbar)
        s9 == Pass(s8, AllElements, G2_card)
        s10 == Pass(s9, LAMBDA ns : FindElements(ns, "Spinner"), G2_spinner)
        s11 == Pass(s10, LAMBDA ns : FindElements(ns, "Badge"),
                    LAMBDA st, i : G2_addMuiImport(st, "Badge"))
        s12 == Pass(s11, LAMBDA ns : FindElements(ns, "Table"),
                    LAMBDA st, i : G2_addMuiImport(st, "Table"))
        s13 == Pass(s12, AllElements, G2_className)
    IN IF s13.threw THEN s13 ELSE G2_insertMuiImports(s13)

-----------------------------------------------------------------------------
(* DP: js/bootstrap_mui_deep.js *)

\* lines 17-109: the entries of COMPONENT_MAP in order (name and props; `import` is
\* `@mui/material/${name}` on every entry)
DP_COMPONENT_MAP ==
    <<[key |-> "Button", name |-> "Button", props |-> <<>>],
      [key |-> "Alert", name |-> "Alert", props |-> <<>>],
      [key |-> "Container", name |-> "Container", props |-> <<>>],
      [key |-> "Card", name |-> "Card", props |-> <<>>],
      [key |-> "Badge", name |-> "Badge", props |-> <<>>],
      [key |-> "Spinner", name |-> "CircularProgress", props |-> <<>>],
      [key |-> "Row", name |-> "Grid",
       props |-> <<Prop("container", "boolean", "true"), Prop("spacing", "number", "2")>>],
      [key |-> "Col", name |-> "Grid",
       props |-> <<Prop("item", "boolean", "true"), Prop("xs", "number", "12")>>],
      [key |-> "Navbar", name |-> "AppBar", props |-> <<>>],
      [key |-> "Nav", name |-> "Toolbar", props |-> <<>>],
      [key |-> "Form", name |-> "Box", props |-> <<>>],
      [key |-> "FormControl", name |-> "TextField", props |-> <<>>],
      [key |-> "FormLabel", name |-> "InputLabel", props |-> <<>>],
      [key |-> "Form.Check", name |-> "Checkbox", props |-> <<>>],
      [key |-> "Modal", name |-> "Dialog", props |-> <<>>]>>

\* lines 22-34: COMPONENT_MAP.Button.propMap
DP_propMap ==
    [variant |-> [primary |-> "contained", secondary |-> "outlined", success |-> "contained",
                  danger |-> "contained", warning |-> "contained", info |-> "contained",
                  light |-> "outlined", dark |-> "contained", link |-> "text"],
     color |-> [primary |-> "primary", secondary |-> "secondary", success |-> "success",
                danger |-> "error", warning |-> "warning", info |-> "info",
                light |-> "default", dark |-> "primary", link |-> "primary"],
     size |-> [sm |-> "small", lg |-> "large"]]

\* lines 39-43: COMPONENT_MAP.Alert.severityMap
DP_severityMap ==
    [primary |-> "info", secondary |-> "info", success |-> "success", danger |-> "error",
     warning |-> "warning", info |-> "info", light |-> "info", dark |-> "info"]

\* lines 112-139: the entries of SUBCOMPONENT_MAP in order; props: the string
\* valued default props, sx: the object valued one (the last of the entry)
DP_SUBCOMPONENT_MAP ==
    <<[parent |-> "Card", child |-> "Body", name |-> "CardContent", props |-> <<>>, sx |-> <<>>],
      [parent |-> "Card", child |-> "Header", name |-> "CardHeader", props |-> <<>>, sx |-> <<>>],
      [parent |-> "Card", child |-> "Footer", name |-> "Box", props |-> <<>>, sx |-> <<>>],
      [parent |-> "Card", child |-> "Title", name |-> "Typography",
       props |-> <<Prop("variant", "string", "h5"), Prop("component", "string", "div")>>,
       sx |-> <<>>],
      [parent |-> "Card", child |-> "Text", name |-> "Typography",
       props |-> <<Prop("variant", "string", "body2"),
                   Prop("color", "string", "text.secondary")>>,
       sx |-> <<>>],
      [parent |-> "Modal", child |-> "Header", name |-> "DialogTitle", props |-> <<>>, sx |-> <<>>],
      [parent |-> "Modal", child |-> "Body", name |-> "DialogContent", props |-> <<>>, sx |-> <<>>],
      [parent |-> "Modal", child |-> "Footer", name |-> "DialogActions", props |-> <<>>, sx |-> <<>>],
      [parent |-> "Modal", child |-> "Title", name |-> "DialogTitle", props |-> <<>>, sx |-> <<>>],
      [parent |-> "Navbar", child |-> "Brand", name |-> "Typography",
       props |-> <<Prop("variant", "string", "h6"), Prop("component", "string", "div")>>,
       sx |-> <<Prop("flexGrow", "number", "1")>>]>>

\* lines 144-157: 'm-0' ... 'py-5', the key `${side}-${step}` gives { side: step }
DP_spacing == {"m", "mt", "mb", "ml", "mr", "mx", "my", "p", "pt", "pb", "pl", "pr", "px", "py"}
DP_steps == {"0", "1", "2", "3", "4", "5"}

\* lines 160-226: the other entries of CLASSNAME_TO_SX, 'class': { key: value } as
\* <<class, key, typeof value, value>>
DP_CLASSNAME_TO_SX ==
    <<<<<<"d", HY, "flex">>, "display", "string", "flex">>,
      <<<<"d", HY, "none">>, "display", "string", "none">>,
      <<<<"d", HY, "block">>, "display", "string", "block">>,
      <<<<"d", HY, "inline">>, "display", "string", "inline">>,
      <<<<"d", HY, "inline", HY, "block">>, "display", "string", "inline-block">>,
      <<<<"justify", HY, "content", HY, "start">>, "justifyContent", "string", "flex-start">>,
      <<<<"justify", HY, "content", HY, "end">>, "justifyContent", "string", "flex-end">>,
      <<<<"justify", HY, "content", HY, "center">>, "justifyContent", "string", "center">>,
      <<<<"justify", HY, "content", HY, "between">>, "justifyContent", "string", "space-between">>,
      <<<<"justify", HY, "content", HY, "around">>, "justifyContent", "string", "space-around">>,
      <<<<"align", HY, "items", HY, "start">>, "alignItems", "string", "flex-start">>,
      <<<<"align", HY, "items", HY, "end">>, "alignItems", "string", "flex-end">>,
      <<<<"align", HY, "items", HY, "center">>, "alignItems", "string", "center">>,
      <<<<"align", HY, "items", HY, "baseline">>, "alignItems", "string", "baseline">>,
      <<<<"align", HY, "items", HY, "stretch">>, "alignItems", "string", "stretch">>,
      <<<<"flex", HY, "column">>, "flexDirection", "string", "column">>,
      <<<<"flex", HY, "row">>, "flexDirection", "string", "row">>,
      <<<<"flex", HY, "wrap">>, "flexWrap", "string", "wrap">>,
      <<<<"flex", HY, "nowrap">>, "flexWrap", "string", "nowrap">>,
      <<<<"flex", HY, "fill">>, "flex", "string", "1 1 auto">>,
      <<<<"text", HY, "start">>, "textAlign", "string", "left">>,
      <<<<"text", HY, "center">>, "textAlign", "string", "center">>,
      <<<<"text", HY, "end">>, "textAlign", "string", "right">>,
      <<<<"text", HY, "justify">>, "textAlign", "string", "justify">>,
      <<<<"text", HY, "uppercase">>, "textTransform", "string", "uppercase">>,
      <<<<"text", HY, "lowercase">>, "textTransform", "string", "lowercase">>,
      <<<<"text", HY, "capitalize">>, "textTransform", "string", "capitalize">>,
      <<<<"fw", HY, "bold">>, "fontWeight", "string", "bold">>,
      <<<<"fw", HY, "bolder">>, "fontWeight", "string", "bolder">>,
      <<<<"fw", HY, "normal">>, "fontWeight", "string", "normal">>,
      <<<<"fw", HY, "light">>, "fontWeight", "string", "light">>,
      <<<<"fst", HY, "italic">>, "fontStyle", "string", "italic">>,
      <<<<"text", HY, "primary">>, "color", "string", "primary.main">>,
      <<<<"text", HY, "secondary">>, "color", "string", "secondary.main">>,
      <<<<"text", HY, "success">>, "color", "string", "success.main">>,
      <<<<"text", HY, "danger">>, "color", "string", "error.main">>,
      <<<<"text", HY, "warning">>, "color", "string", "warning.main">>,
      <<<<"text", HY, "info">>, "color", "string", "info.main">>,
      <<<<"text", HY, "muted">>, "color", "string", "text.secondary">>,
      <<<<"w", HY, "100">>, "width", "string", "100%">>,
      <<<<"h", HY, "100">>, "height", "string", "100%">>,
      <<<<"vw", HY, "100">>, "width", "string", "100vw">>,
      <<<<"vh", HY, "100">>, "height", "string", "100vh">>,
      <<<<"position", HY, "relative">>, "position", "string", "relative">>,
      <<<<"position", HY, "absolute">>, "position", "string", "absolute">>,
      <<<<"position", HY, "fixed">>, "position", "string", "fixed">>,
      <<<<"position", HY, "sticky">>, "position", "string", "sticky">>,
      <<<<"border">>, "border", "string", "1px solid">>,
      <<<<"border", HY, "0">>, "border", "number", "0">>,
      <<<<"rounded">>, "borderRadius", "number", "1">>,
      <<<<"rounded", HY, "0">>, "borderRadius", "number", "0">>,
      <<<<"bg", HY, "primary">>, "backgroundColor", "string", "primary.main">>,
      <<<<"bg", HY, "secondary">>, "backgroundColor", "string", "secondary.main">>,
      <<<<"bg", HY, "success">>, "backgroundColor", "string", "success.main">>,
      <<<<"bg", HY, "danger">>, "backgroundColor", "string", "error.main">>,
      <<<<"bg", HY, "warning">>, "backgroundColor", "string", "warning.main">>,
      <<<<"bg", HY, "info">>, "backgroundColor", "string", "info.main">>,
      <<<<"bg", HY, "light">>, "backgroundColor", "string", "grey.100">>,
      <<<<"bg", HY, "dark">>, "backgroundColor", "string", "grey.900">>>>

\* CLASSNAME_TO_SX is an object literal: a key it does not define is looked up on
\* Object.prototype, whose members are truthy and have no enumerable property
DP_inherited ==
    {"constructor", "toString", "toLocaleString", "valueOf", "hasOwnProperty",
     "isPrototypeOf", "propertyIsEnumerable"}

\* the own enumerable properties of CLASSNAME_TO_SX[cls]
DP_entry(cls) ==
    IF Len(cls) = 3 /\ cls[1] \in DP_spacing /\ cls[2] = HY /\ cls[3] \in DP_steps
    THEN <<Prop(cls[1], "number", cls[3])>>
    ELSE LET hits == SelectSeq(DP_CLASSNAME_TO_SX, LAMBDA e : e[1] = cls)
         IN [k \in 1..Len(hits) |-> Prop(hits[k][2], hits[k][3], hits[k][4])]

\* lines 329-330: CLASSNAME_TO_SX[cls] is truthy
DP_hasEntry(cls) == Len(DP_entry(cls)) > 0 \/ (Len(cls) = 1 /\ cls[1] \in DP_inherited)

\* lines 234-262
DP_addImport(st, source, componentName) ==
    LET existingImport == FindImports(st.imports, source)
        d == existingImport[1]
        specifiers == st.imports[d].specs
        alreadyImported == \E k \in 1..Len(specifiers) : specifiers[k].local = componentName
        newImport == Decl(source, "Literal", <<Spec_("default", "default", componentName)>>)
    IN IF Len(existingImport) > 0
       THEN IF alreadyImported THEN st
            ELSE [st EXCEPT !.imports[d].specs =
                               Append(@, Spec_("default", "default", componentName))]
       ELSE [st EXCEPT !.imports = Append(@, newImport)]

\* lines 265-302, on the attributes of the element
DP_mergeSxAttribute(attrs, newSxProps) ==
    LET found == SelectIdx(Len(attrs), LAMBDA k : attrs[k].name = "sx")
        existingSx == attrs[found[1]]
    IN IF Len(found) = 0
       THEN Append(attrs, jsxAttributeObject("sx", newSxProps))
       ELSE IF existingSx.form = "cont" /\ existingSx.nt = "ObjectExpression"
       THEN [attrs EXCEPT ![found[1]].props =
                Fold(LAMBDA props, e :
                        IF \E k \in 1..Len(props) : KeyName(props[k]) = e.key
                        THEN props ELSE Append(props, e),
                     @, newSxProps)]
       ELSE attrs

\* line 330: Object.assign(sxProps, CLASSNAME_TO_SX[cls])
DP_assign(sxProps, cls) ==
    Fold(LAMBDA o, e : Assign(o, e.key, e.ty, e.val), sxProps, DP_entry(cls))

\* lines 305-349; line 320 is read as line 317, `.filter(c => c.trim())`.
\* classValue.type throws on a className without a value
DP_convertClassNameToSx(st, i) ==
    LET attrs == st.nodes[i].attrs
        found == SelectIdx(Len(attrs), LAMBDA k : attrs[k].name = "className")
        classNameAttr == attrs[found[1]]
        classes == IF classNameAttr.nt = "StringLiteral" /\ classNameAttr.form \in {"lit", "cont"}
                   THEN Tokens(classNameAttr.cls) ELSE <<>>
        sxProps == Fold(DP_assign, <<>>, classes)
        remainingClasses == SelectSeq(classes, LAMBDA cls : ~DP_hasEntry(cls))
        merged == IF Len(sxProps) > 0 THEN DP_mergeSxAttribute(attrs, sxProps) ELSE attrs
        rest == [jsxAttributeStringLiteral("className", "") EXCEPT
                    !.cls = Join(remainingClasses)]
    IN IF Len(found) = 0 THEN st
       ELSE IF classNameAttr.form = "none" THEN Throw(st)
       ELSE IF Len(classes) = 0 THEN st
       ELSE [st EXCEPT !.nodes[i].attrs =
                          IF Len(remainingClasses) > 0
                          THEN [merged EXCEPT ![found[1]] = rest]
                          ELSE SelectSeq(merged, LAMBDA a : a.name # "className"),
                       !.changed = @ \/ Len(sxProps) > 0]

\* lines 378-387: attr.value.value is what a literal prints; on an expression
\* container the assignment sets a field the printer does not read
DP_propMapAttr(attr) ==
    LET value == IF ValueValue(attr) \notin {Undef, ""} THEN ValueValue(attr)
                 ELSE ExpressionValue(attr)
    IN IF /\ attr.name \in DOMAIN DP_propMap
          /\ attr.form # "none"
          /\ attr.ty = "string"
          /\ value \in DOMAIN DP_propMap[attr.name]
          /\ attr.form = "lit"
       THEN [attr EXCEPT !.val = DP_propMap[attr.name][value]]
       ELSE attr

\* lines 390-405
DP_defaultProp(p) ==
    IF p.ty = "boolean" THEN jsxAttributeNoValue(p.key)
    ELSE jsxAttributeExpr(p.key, IF p.ty = "string" THEN "StringLiteral" ELSE "NumericLiteral",
                          p.ty, p.val)

\* lines 368-411: one element found under the name of the entry
DP_component(muiConfig, st, i) ==
    LET s1 == Rename(st, i, muiConfig.name)
        attrs == s1.nodes[i].attrs
        mapped == IF muiConfig.key = "Button"
                  THEN [k \in 1..Len(attrs) |-> DP_propMapAttr(attrs[k])]
                  ELSE attrs
        defaults == [k \in 1..Len(muiConfig.props) |-> DP_defaultProp(muiConfig.props[k])]
        s2 == DP_convertClassNameToSx([s1 EXCEPT !.nodes[i].attrs = mapped \o defaults], i)
    IN [s2 EXCEPT !.changed = TRUE]

\* lines 426-457: one element found under the member name of the entry
DP_subcomponent(muiConfig, st, i) ==
    LET s1 == Rename(st, i, muiConfig.name)
        attrs == s1.nodes[i].attrs
        defaults == [k \in 1..Len(muiConfig.props) |->
                        jsxAttributeStringLiteral(muiConfig.props[k].key, muiConfig.props[k].val)]
        withSx == IF Len(muiConfig.sx) > 0
                  THEN DP_mergeSxAttribute(attrs \o defaults, muiConfig.sx)
                  ELSE attrs \o defaults
        s2 == DP_convertClassNameToSx([s1 EXCEPT !.nodes[i].attrs = withSx], i)
    IN [s2 EXCEPT !.changed = TRUE]

\* String.prototype.split(' '), with the empty strings
RECURSIVE split(_)
split(s) ==
    LET ends == {k \in 1..Len(s) : s[k] = SP}
        e == CHOOSE k \in ends : \A j \in ends : k <= j
    IN IF ends = {} THEN <<s>>
       ELSE <<SubSeq(s, 1, e - 1)>> \o split(SubSeq(s, e + 1, Len(s)))

\* Array.prototype.join(' ')
RECURSIVE join(_)
join(parts) ==
    IF Len(parts) = 0 THEN <<>>
    ELSE IF Len(parts) = 1 THEN parts[1]
    ELSE parts[1] \o <<SP>> \o join(Tail(parts))

\* lines 476-481: /^col-(xs|sm|md|lg|xl)?-?(\d+)$/ on a token, as <<breakpoint, size>>
DP_colMatch(c) ==
    IF Len(c) = 3 /\ c[1] = "col" /\ c[2] = HY /\ AllDigits(c[3])
    THEN <<"xs", parseInt(c[3])>>
    ELSE IF Len(c) = 4 /\ c[1] = "col" /\ c[2] = HY /\ c[3] = HY /\ AllDigits(c[4])
    THEN <<"xs", parseInt(c[4])>>
    ELSE IF Len(c) = 5 /\ c[1] = "col" /\ c[2] = HY /\ c[3] \in Breakpoints
            /\ c[4] = HY /\ AllDigits(c[5])
    THEN <<c[3], parseInt(c[5])>>
    ELSE <<>>

\* lines 461-504.  Step 2 has renamed every element named Col by now, so the
\* find() of this step is empty in every run.
DP_col(st, i) ==
    LET attrs == st.nodes[i].attrs
        found == SelectIdx(Len(attrs), LAMBDA k : attrs[k].name = "className")
        classNameAttr == attrs[found[1]]
        classValue == IF classNameAttr.form = "lit"
                         \/ (classNameAttr.form = "cont" /\ classNameAttr.nt = "StringLiteral")
                      THEN classNameAttr.cls ELSE <<>>
        classes == split(classValue)
        hits == SelectSeq(classes, LAMBDA c : DP_colMatch(c) # <<>>)
        colClass == hits[1]
        match == DP_colMatch(colClass)
        remainingClasses == SelectSeq(classes, LAMBDA c : c # colClass)
        pushed == Append(attrs, jsxAttributeExpr(match[1], "NumericLiteral", "number", match[2]))
        rest == [jsxAttributeStringLiteral("className", "") EXCEPT
                    !.cls = join(remainingClasses)]
    IN IF Len(found) = 0 \/ classNameAttr.form = "none" THEN st
       ELSE IF Len(classValue) = 0 \/ Len(hits) = 0 THEN st
       ELSE [st EXCEPT !.nodes[i].attrs =
                          IF Len(remainingClasses) > 0
                          THEN [pushed EXCEPT ![found[1]] = rest]
                          ELSE SelectSeq(pushed, LAMBDA a : a.name # "className"),
                       !.changed = TRUE]

\* lines 507-523
DP_alert(st, i) ==
    LET attrs == st.nodes[i].attrs
        found == SelectIdx(Len(attrs), LAMBDA k : attrs[k].name = "variant")
        variantAttr == attrs[found[1]]
    IN IF Len(found) = 0 \/ variantAttr.form # "lit" THEN st
       ELSE IF variantAttr.ty = "string" /\ variantAttr.val \in DOMAIN DP_severityMap
       THEN [st EXCEPT !.nodes[i].attrs[found[1]] =
                          [variantAttr EXCEPT !.name = "severity",
                                              !.val = DP_severityMap[variantAttr.val]],
                       !.changed = TRUE]
       ELSE st

\* lines 526-546
DP_container(st, i) ==
    LET attrs == st.nodes[i].attrs
    IN IF HasAttr(attrs, "fluid")
       THEN [st EXCEPT !.nodes[i].attrs =
                          Append(SelectSeq(attrs, LAMBDA a : a.name # "fluid"),
                                 jsxAttributeExpr("maxWidth", "BooleanLiteral", "boolean", "false")),
                       !.changed = TRUE]
       ELSE st

\* lines 555-556: the names the two tables rename to
DP_targets ==
    {DP_COMPONENT_MAP[k].name : k \in 1..Len(DP_COMPONENT_MAP)}
    \cup {DP_SUBCOMPONENT_MAP[k].name : k \in 1..Len(DP_SUBCOMPONENT_MAP)}

\* lines 549-578
DP_addImports(st) ==
    LET ns == st.nodes
        usedComponents ==
            Fold(LAMBDA used, i : IF NameOf(ns[i].open) \in DP_targets
                                  THEN SetAdd(used, NameOf(ns[i].open)) ELSE used,
                 <<>>, AllElements(ns))
        s1 == Fold(LAMBDA s, componentName : DP_addImport(s, MuiPath(componentName), componentName),
                   st, usedComponents)
    IN IF ~st.changed THEN st
       ELSE IF Len(usedComponents) > 0
       THEN DP_addImport(s1, MuiPath("styles"), "ThemeProvider")
       ELSE s1

\* lines 365-412: the elements of one entry of COMPONENT_MAP
DP_components(st, muiConfig) ==
    Pass(st, LAMBDA ns : FindElements(ns, muiConfig.key),
         LAMBDA a, i : DP_component(muiConfig, a, i))

\* the member name of an entry of SUBCOMPONENT_MAP, lines 418-426
DP_findMember(ns, muiConfig) ==
    SelectIdx(Len(ns), LAMBDA i : IsTag(ns[i], muiConfig.parent, muiConfig.child))

\* lines 415-458: the elements of one entry of SUBCOMPONENT_MAP
DP_subcomponents(st, muiConfig) ==
    Pass(st, LAMBDA ns : DP_findMember(ns, muiConfig),
         LAMBDA a, i : DP_subcomponent(muiConfig, a, i))

\* lines 7-581
DP_transformer(ast) ==
    LET s0 == Start(ast)
        kept == SelectSeq(s0.imports, LAMBDA d : ~includesBootstrap(d.source))
        s1 == [s0 EXCEPT !.imports = kept, !.changed = Len(kept) < Len(s0.imports)]
        s2 == Fold(DP_components, s1, DP_COMPONENT_MAP)
        s3 == Fold(DP_subcomponents, s2, DP_SUBCOMPONENT_MAP)
        s4 == Pass(s3, LAMBDA ns : FindElements(ns, "Col"), DP_col)
        s5 == Pass(s4, LAMBDA ns : FindElements(ns, "Alert"), DP_alert)
        s6 == Pass(s5, LAMBDA ns : FindElements(ns, "Container"), DP_container)
        s7 == IF s6.threw THEN s6 ELSE DP_addImports(s6)
    IN [s7 EXCEPT !.ret = IF s7.changed THEN "printed" ELSE "source"]

-----------------------------------------------------------------------------
(* P1: unnamed/part_001 *)

\* REPLACEMENTS: newName by imported name; importSource is `@mui/material/${newName}`
P1_REPLACEMENTS ==
    [Alert |-> "Alert", Badge |-> "Badge", Breadcrumb |-> "Breadcrumbs", Button |-> "Button",
     ButtonGroup |-> "ButtonGroup", Card |-> "Card", CardImg |-> "CardMedia",
     CardImgOverlay |-> "CardMedia", CardBody |-> "CardContent", CardHeader |-> "CardHeader",
     CardFooter |-> "CardActions", CardTitle |-> "Typography", CardSubtitle |-> "Typography",
     CardText |-> "Typography", Navbar |-> "AppBar", Nav |-> "Tabs", NavItem |-> "Tab",
     NavLink |-> "Tab", NavDropdown |-> "Menu", Dropdown |-> "Menu", DropdownButton |-> "Menu",
     Form |-> "Box", FormLabel |-> "InputLabel", FormControl |-> "FormControl",
     FormGroup |-> "FormGroup", FormText |-> "FormHelperText", FormSelect |-> "Select",
     InputGroup |-> "Input", FloatingLabel |-> "InputLabel", Modal |-> "Modal",
     Tooltip |-> "Tooltip", Popover |-> "Popover", Pagination |-> "Pagination",
     ProgressBar |-> "LinearProgress", Spinner |-> "CircularProgress", Table |-> "Table",
     Tbody |-> "TableBody", Td |-> "TableCell", Th |-> "TableCell", Thead |-> "TableHead",
     Tr |-> "TableRow", Collapse |-> "Collapse", CloseButton |-> "IconButton"]

P1_CARD_SUBCOMPONENTS ==
    [Body |-> "CardContent", Footer |-> "CardActions", Header |-> "CardHeader",
     Img |-> "CardMedia", ImgOverlay |-> "CardMedia", Title |-> "Typography",
     Subtitle |-> "Typography", Text |-> "Typography"]

\* newImports[importSource].push({ importedName, localName })
P1_schedule(newImports, importedName, localName) ==
    LET src == MuiPath(importedName)
        item == [importedName |-> importedName, localName |-> localName]
    IN MapSet(newImports, src, IF MapHas(newImports, src) THEN Append(MapGet(newImports, src), item)
                                ELSE <<item>>)

\* lines 140-173: one specifier of a react-bootstrap import
P1_specifier(acc, spec) ==
    IF spec.kind = "named"
    THEN IF spec.imported \in DOMAIN P1_REPLACEMENTS
         THEN [acc EXCEPT !.cardAliases = IF spec.imported = "Card" THEN SetAdd(@, spec.local) ELSE @,
                          !.newImports = P1_schedule(@, P1_REPLACEMENTS[spec.imported], spec.local)]
         ELSE [acc EXCEPT !.diag = Append(@, spec.imported),
                          !.remaining = Append(@, spec)]
    ELSE [acc EXCEPT !.remaining = Append(@, spec)]

\* lines 135-182: the first pass, declaration d of the file as it was parsed
P1_declaration(st, d) ==
    LET r == Fold(P1_specifier,
                  [cardAliases |-> st.cardAliases, newImports |-> st.newImports,
                   diag |-> st.diag, remaining |-> <<>>],
                  st.imports[d].specs)
    IN [st EXCEPT !.cardAliases = r.cardAliases, !.newImports = r.newImports, !.diag = r.diag,
                  !.imports[d].specs = r.remaining,
                  !.removed = IF Len(r.remaining) = 0 THEN @ \cup {d} ELSE @]

\* lines 188-204: the opening and the closing name of element i, for one alias
P1_member(alias, st, i) ==
    LET n == st.nodes[i]
        hit(t) == IsMember(t) /\ t.obj = alias /\ t.prop \in DOMAIN P1_CARD_SUBCOMPONENTS
        new(t) == P1_CARD_SUBCOMPONENTS[t.prop]
        s1 == IF hit(n.open)
              THEN [st EXCEPT !.nodes[i].open = Ident(new(n.open)),
                              !.newImports = P1_schedule(@, new(n.open), new(n.open))]
              ELSE st
    IN IF n.hasClose /\ hit(n.close)
       THEN [s1 EXCEPT !.nodes[i].close = Ident(new(n.close)),
                       !.newImports = P1_schedule(@, new(n.close), new(n.close))]
       ELSE s1

\* lines 215-227
P1_dedupe(list) ==
    Fold(LAMBDA deduped, item : SetAdd(deduped, item), <<>>, list)

P1_importSpecifier(item) == Spec_("named", item.importedName, item.localName)

\* lines 230-287: one importSource of newImports.  The existing import is looked up
\* by a source node of type Literal.
P1_insert(st, entry) ==
    LET importSource == entry.k
        items == P1_dedupe(entry.v)
        existingImports == SelectIdx(Len(st.imports), LAMBDA d :
                               st.imports[d].nt = "Literal" /\ st.imports[d].source = importSource)
        d1 == existingImports[1]
        merged == Fold(LAMBDA specs, item :
                          IF \E k \in 1..Len(specs) :
                                 specs[k].kind = "named" /\ specs[k].local = item.localName
                          THEN specs ELSE Append(specs, P1_importSpecifier(item)),
                       st.imports[d1].specs, items)
        newImport == Decl(importSource, "Literal",
                          [k \in 1..Len(items) |-> P1_importSpecifier(items[k])])
    IN IF Len(existingImports) > 0
       THEN [st EXCEPT !.imports[d1].specs = merged]
       ELSE [st EXCEPT !.imports = <<newImport>> \o @]

\* lines 47-290
P1_transformer(ast) ==
    LET st0 == Start(ast) @@ [cardAliases |-> <<>>, newImports |-> <<>>, removed |-> {}]
        st1 == ForEach(st0, FindImports(ast.imports, "react-bootstrap"), P1_declaration)
        st2 == Fold(LAMBDA st, alias :
                       ForEach(st, AllElements(st.nodes), LAMBDA x, i : P1_member(alias, x, i)),
                    st1, st1.cardAliases)
        \* lines 176-181: the declarations without specifiers have left the file
        st3 == [st2 EXCEPT !.imports = Concat([d \in 1..Len(@) |->
                                                  IF d \in st2.removed THEN <<>> ELSE <<@[d]>>])]
    IN Fold(P1_insert, st3, st3.newImports)

-----------------------------------------------------------------------------
(* P0: unnamed/part_000 *)

\* lines 11-21
P0_componentMap ==
    [Alert |-> "Alert", Button |-> "Button", Card |-> "Card", Col |-> "Grid",
     Container |-> "Container", Modal |-> "Dialog", Row |-> "Grid",
     Spinner |-> "CircularProgress", Table |-> "Table"]

\* lines 24-33, 'Parent.Child' as [Parent][Child]
P0_subComponentMap ==
    [Modal |-> [Header |-> "DialogTitle", Title |-> "DialogTitle", Body |-> "DialogContent",
                Footer |-> "DialogActions"],
     Card |-> [Img |-> "CardMedia", Body |-> "CardContent", Title |-> "Typography",
               Text |-> "Typography"]]

\* lines 46-52: Map original name -> local name
P0_bootstrapImportSpecifiers(imps) ==
    Fold(LAMBDA m, d :
            Fold(LAMBDA m2, sp : IF sp.kind = "named" THEN MapSet(m2, sp.imported, sp.local) ELSE m2,
                 m, imps[d].specs),
         <<>>, FindImports(imps, "react-bootstrap"))

\* line 59: the inverse Map, local name -> original name
P0_localNamesToOriginal(specifiers) ==
    Fold(LAMBDA m, e : MapSet(m, e.v, e.k), <<>>, specifiers)

\* lines 66-72: the filter of step 3
P0_isSubComponent(l2o, n) ==
    /\ n.kind = "elem" /\ IsMember(n.open)
    /\ MapHas(l2o, n.open.obj)
    /\ MapGet(l2o, n.open.obj) \in DOMAIN P0_subComponentMap
    /\ n.open.prop \in DOMAIN P0_subComponentMap[MapGet(l2o, n.open.obj)]

\* lines 73-100: step 3 on one opening element
P0_subComponent(st, i) ==
    LET n == st.nodes[i]
        originalObjectName == MapGet(st.l2o, n.open.obj)
        newComponentName == P0_subComponentMap[originalObjectName][n.open.prop]
        extra == IF originalObjectName = "Card" /\ n.open.prop = "Img"
                 THEN <<jsxAttributeStringLiteral("component", "img")>>
                 ELSE IF originalObjectName = "Card" /\ n.open.prop = "Title"
                 THEN <<jsxAttributeStringLiteral("variant", "h5")>>
                 ELSE <<>>
    IN [Rename(st, i, newComponentName) EXCEPT
           !.nodes[i].attrs = @ \o extra,
           !.adds = SetAdd(@, newComponentName)]

\* lines 119-159: one attribute of the element, as what it adds to newAttributes and
\* whether it sets attributesChanged.  An attribute renamed in place is `transformed`
\* and so is not pushed.
P0_attr(originalName, attr) ==
    LET isStringLiteral == attr.form = "lit" /\ attr.nt = "StringLiteral"
        out(as, c) == [attrs |-> as, changed |-> c]
    IN CASE originalName = "Modal" /\ attr.name \in {"show", "onHide"} -> out(<<>>, TRUE)
         [] originalName = "Alert" /\ attr.name = "variant" -> out(<<>>, TRUE)
         [] originalName = "Button" /\ attr.name = "size" /\ isStringLiteral
               /\ attr.val \in {"sm", "lg"} -> out(<<>>, TRUE)
         [] originalName = "Button" /\ attr.name = "variant" /\ isStringLiteral ->
               IF startsWithOutline(attr.val)
               THEN out(<<jsxAttributeStringLiteral("variant", "outlined"),
                          jsxAttributeStringLiteral("color", OutlineColor[attr.val])>>, TRUE)
               ELSE out(<<jsxAttributeStringLiteral("color", attr.val)>>, TRUE)
         [] OTHER -> out(<<attr>>, FALSE)

\* lines 105-173: step 4 on one opening element; the closing element is not touched
P0_component(st, i) ==
    LET n == st.nodes[i]
        originalName == MapGet(st.l2o, NameOf(n.open))
        newComponentName == P0_componentMap[originalName]
        r == Fold(LAMBDA acc, attr :
                     LET o == P0_attr(originalName, attr)
                     IN [attrs |-> acc.attrs \o o.attrs, changed |-> acc.changed \/ o.changed],
                  [attrs |-> <<>>, changed |-> FALSE], n.attrs)
        newAttributes ==
            CASE originalName = "Row" -> <<jsxAttributeNoValue("container")>> \o r.attrs
              [] originalName = "Col" -> <<jsxAttributeNoValue("item")>> \o r.attrs
              [] OTHER -> r.attrs
        attributesChanged == r.changed \/ originalName \in {"Row", "Col"}
    IN IF originalName \notin DOMAIN P0_componentMap THEN st
       ELSE [st EXCEPT !.nodes[i].open = Ident(newComponentName),
                       !.nodes[i].attrs = IF attributesChanged THEN newAttributes ELSE @,
                       !.adds = SetAdd(@, newComponentName)]

\* line 191 and line 195: sort by local name
P0_sortSpecifiers(specs) ==
    Concat([k \in 1..Len(NameOrder) |-> SelectSeq(specs, LAMBDA sp : sp.local = NameOrder[k])])

\* lines 176-205: step 5
P0_addImports(st) ==
    LET imps == st.imports
        muiImportDeclaration == FindImports(imps, "@mui/material")
        newSpecifiers == [k \in 1..Len(st.adds) |-> Named(st.adds[k])]
        d == muiImportDeclaration[1]
        existingSpecifierNames == {imps[d].specs[k].local : k \in 1..Len(imps[d].specs)}
        specifiersToAdd == SelectSeq(newSpecifiers, LAMBDA s : s.local \notin existingSpecifierNames)
    IN IF Len(st.adds) = 0 THEN st
       ELSE IF Len(muiImportDeclaration) > 0
       THEN IF Len(specifiersToAdd) > 0
            THEN [st EXCEPT !.imports[d].specs = P0_sortSpecifiers(@ \o specifiersToAdd)]
            ELSE st
       ELSE [st EXCEPT !.imports =
                Append(@, Decl("@mui/material", "Literal", P0_sortSpecifiers(newSpecifiers)))]

\* lines 6-212
P0_transformer(ast) ==
    LET specifiers == P0_bootstrapImportSpecifiers(ast.imports)
        l2o == P0_localNamesToOriginal(specifiers)
        s0 == Start(ast) @@ [l2o |-> l2o]
        s3 == Pass(s0, LAMBDA ns : SelectIdx(Len(ns), LAMBDA i : P0_isSubComponent(l2o, ns[i])),
                   P0_subComponent)
        s4 == Pass(s3, LAMBDA ns : SelectIdx(Len(ns), LAMBDA i :
                                       IsElem(ns, i) /\ MapHas(l2o, NameOf(ns[i].open))),
                   P0_component)
        s5 == P0_addImports(s4)
    IN IF Len(FindImports(ast.imports, "react-bootstrap")) = 0 \/ Len(specifiers) = 0
       THEN [s0 EXCEPT !.ret = "source"]
       ELSE [s5 EXCEPT !.imports = SelectSeq(@, LAMBDA d : d.source # "react-bootstrap")]

-----------------------------------------------------------------------------
(* RC: js/react-bootstrap-to-mui_claude.js.  Line 236 sets the parser of the *)
(* transform to tsx, whatever parser jscodeshift is run with.                 *)

\* lines 17-60, "null" for a null entry
RC_componentMap ==
    [Container |-> "@mui/material/Container", Row |-> "null", Col |-> "@mui/material/Grid",
     Button |-> "@mui/material/Button", ButtonGroup |-> "@mui/material/ButtonGroup",
     Form |-> "null", FormControl |-> "@mui/material/FormControl",
     FormGroup |-> "@mui/material/FormGroup", FormLabel |-> "@mui/material/FormLabel",
     FormCheck |-> "@mui/material/Checkbox", InputGroup |-> "@mui/material/TextField",
     Nav |-> "@mui/material/Tabs", Navbar |-> "@mui/material/AppBar",
     NavDropdown |-> "@mui/material/Menu", Alert |-> "@mui/material/Alert",
     Badge |-> "@mui/material/Badge", Card |-> "@mui/material/Card",
     CardBody |-> "@mui/material/CardContent", CardHeader |-> "@mui/material/CardHeader",
     CardFooter |-> "@mui/material/CardActions", Dropdown |-> "@mui/material/Select",
     Modal |-> "@mui/material/Dialog", ModalHeader |-> "@mui/material/DialogTitle",
     ModalBody |-> "@mui/material/DialogContent", ModalFooter |-> "@mui/material/DialogActions",
     Spinner |-> "@mui/material/CircularProgress", Table |-> "@mui/material/Table",
     Toast |-> "@mui/material/Snackbar", Tooltip |-> "@mui/material/Tooltip",
     Pagination |-> "@mui/material/Pagination", ProgressBar |-> "@mui/material/LinearProgress",
     ListGroup |-> "@mui/material/List", ListGroupItem |-> "@mui/material/ListItem"]

\* lines 128-137: the name that is imported
RC_muiCompName(comp) ==
    CASE comp = "CardBody" -> "CardContent"
      [] comp = "CardFooter" -> "CardActions"
      [] comp = "FormCheck" -> "Checkbox"
      [] comp = "Spinner" -> "CircularProgress"
      [] comp = "ProgressBar" -> "LinearProgress"
      [] comp = "ListGroupItem" -> "ListItem"
      [] comp = "ModalHeader" -> "DialogTitle"
      [] comp = "ModalBody" -> "DialogContent"
      [] comp = "ModalFooter" -> "DialogActions"
      [] OTHER -> comp

\* lines 158-168: the name the elements are given
RC_muiComp(bootstrapComp) ==
    IF bootstrapComp = "Modal" THEN "Dialog" ELSE RC_muiCompName(bootstrapComp)

\* lines 63-72: the imported names of the named specifiers
RC_bootstrapImports(imps) ==
    Fold(LAMBDA s, d :
            Fold(LAMBDA s2, sp : IF sp.kind = "named" THEN SetAdd(s2, sp.imported) ELSE s2,
                 s, imps[d].specs),
         <<>>, FindImports(imps, "react-bootstrap"))

\* lines 107-109, in a file that declares no component of its own
RC_componentsToReplace(bootstrapImports) ==
    SelectSeq(bootstrapImports,
              LAMBDA comp : comp \in DOMAIN RC_componentMap /\ RC_componentMap[comp] # "null")

\* lines 120-154: the new declarations go before the first import that is left,
\* and nowhere when none is left
RC_insertImports(imps, componentsToReplace) ==
    LET muiImports ==
            Fold(LAMBDA m, comp :
                    MapSet(m, RC_componentMap[comp],
                           (IF MapHas(m, RC_componentMap[comp])
                            THEN MapGet(m, RC_componentMap[comp]) ELSE <<>>)
                           \o <<RC_muiCompName(comp)>>),
                 <<>>, componentsToReplace)
        statements ==
            [k \in 1..Len(muiImports) |->
                Decl(muiImports[k].k, "Literal",
                     Fold(LAMBDA acc, c : IF Named(c) \in Elems(acc) THEN acc
                                          ELSE Append(acc, Named(c)),
                          <<>>, muiImports[k].v))]
    IN IF Len(imps) > 0 THEN statements \o imps ELSE imps

\* lines 173-221: one opening element named bootstrapComp; attr.value.value throws
\* on a variant without a value
RC_opening(bootstrapComp, st, i) ==
    LET attrs == st.nodes[i].attrs
        variant(a) ==
            IF a.name = "variant" /\ a.form = "lit" /\ a.ty = "string"
            THEN [a EXCEPT !.val = CASE a.val = "primary" -> "contained"
                                     [] a.val = "secondary" -> "outlined"
                                     [] a.val = "link" -> "text"
                                     [] OTHER -> a.val]
            ELSE a
        shows == SelectIdx(Len(attrs), LAMBDA k : attrs[k].name = "show")
        newAttrs ==
            CASE bootstrapComp = "Button" -> [k \in 1..Len(attrs) |-> variant(attrs[k])]
              [] bootstrapComp = "Col" -> Append(attrs, jsxAttributeNoValue("item"))
              [] bootstrapComp = "Modal" /\ Len(shows) > 0 ->
                    [attrs EXCEPT ![shows[1]].name = "open"]
              [] OTHER -> attrs
        renamed == [st EXCEPT !.nodes[i].open = Ident(RC_muiComp(bootstrapComp)),
                              !.changed = TRUE]
    IN IF bootstrapComp = "Button"
          /\ \E k \in 1..Len(attrs) : attrs[k].name = "variant" /\ attrs[k].form = "none"
       THEN Throw(renamed)
       ELSE [renamed EXCEPT !.nodes[i].attrs = newAttrs]

\* lines 224-229: one closing element named bootstrapComp
RC_closing(bootstrapComp, st, i) ==
    [st EXCEPT !.nodes[i].close = Ident(RC_muiComp(bootstrapComp)), !.changed = TRUE]

\* lines 157-230: the elements of one component
RC_replace(st, bootstrapComp) ==
    LET s1 == Pass(st, LAMBDA ns : FindElements(ns, bootstrapComp),
                   LAMBDA a, i : RC_opening(bootstrapComp, a, i))
    IN Pass(s1, LAMBDA ns : SelectIdx(Len(ns), LAMBDA i :
                               IsElem(ns, i) /\ ns[i].hasClose /\ ns[i].close = Ident(bootstrapComp)),
            LAMBDA a, i : RC_closing(bootstrapComp, a, i))

\* lines 11-233
RC_transformer(ast) ==
    LET bootstrapImports == RC_bootstrapImports(ast.imports)
        componentsToReplace == RC_componentsToReplace(bootstrapImports)
        s0 == Start(ast)
        kept == SelectSeq(ast.imports, LAMBDA d : d.source # "react-bootstrap")
        s1 == [s0 EXCEPT !.imports = RC_insertImports(kept, componentsToReplace),
                         !.changed = TRUE]
        s2 == Fold(RC_replace, s1, componentsToReplace)
    IN IF Len(bootstrapImports) = 0 THEN [s0 EXCEPT !.ret = "source"]
       ELSE [s2 EXCEPT !.ret = IF s2.changed THEN "printed" ELSE "source"]

-----------------------------------------------------------------------------
(* Input files.                                                            *)

Parsers == {"babel", "tsx"}

Str(n, v) == MkAttr(n, "lit", "", "string", v, <<>>, <<>>)
Cls(symbols) == MkAttr("className", "lit", "", "string", "", symbols, <<>>)
Bare(n) == jsxAttributeNoValue(n)
Dyn(n, e) == MkAttr(n, "cont", "", "expr", e, <<>>, <<>>)
Num(n, v) == MkAttr(n, "cont", "", "number", v, <<>>, <<>>)
Obj(n, props) == MkAttr(n, "cont", "", "object", "", <<>>, props)

Shape(open, hasClose, attrs) == [open |-> open, hasClose |-> hasClose, attrs |-> attrs]

RECURSIVE Ancestors(_, _)
Ancestors(t, i) == IF i = 0 THEN {} ELSE {i} \cup Ancestors(t, t[i].parent)

\* where the next element in document order can hang: at top level, or under the
\* last element or one of its ancestors, if that element has a closing tag
ValidParents(t) == {0} \cup {p \in Ancestors(t, Len(t)) : t[p].hasClose}

RECURSIVE Trees(_, _)
\* the trees of 1..n elements with the given shapes
Trees(shapes, n) ==
    IF n = 0 THEN {<<>>}
    ELSE LET smaller == Trees(shapes, n - 1)
         IN smaller \cup
            {Append(t, Elem(s.open, s.hasClose, s.attrs, p)) :
                <<t, s, p>> \in {x \in smaller \X shapes \X (0..(n - 1)) :
                                    Len(x[1]) = n - 1 /\ x[3] \in ValidParents(x[1])}}

RB(specs) == Decl("react-bootstrap", "", specs)

\* the components family: who binds a tag, and what a rule does to its props
ComponentImports ==
    {<<>>,
     <<RB(<<Named("Button")>>)>>,
     <<RB(<<Named("Alert")>>)>>,
     <<RB(<<Named("Button"), Named("Carousel")>>)>>,
     <<RB(<<Spec_("default", "default", "RB"), Named("Button")>>)>>,
     <<RB(<<Named("Row"), Named("Col")>>)>>,
     <<Decl("./Button", "", <<Spec_("default", "default", "Button")>>)>>,
     <<Decl("bootstrap/dist/css/bootstrap.min.css", "", <<>>)>>}

ComponentShapes ==
    {Shape(Ident("Button"), TRUE, <<>>),
     Shape(Ident("Button"), TRUE, <<Str("variant", "primary")>>),
     Shape(Ident("Button"), TRUE, <<Str("variant", "custom"), Str("size", "xl")>>),
     Shape(Ident("Alert"), TRUE, <<Str("variant", "custom")>>),
     Shape(Ident("Row"), TRUE, <<>>),
     Shape(Ident("Col"), TRUE, <<Str("id", "c")>>),
     Shape(Ident("Carousel"), TRUE, <<>>),
     Shape(Ident("Widget"), FALSE, <<>>)}

File(imps, ns) == [imports |-> imps, nodes |-> ns]
Current == File(imports, nodes)

InitWith(importSets, trees) ==
    /\ parser \in Parsers
    /\ engine = ""
    /\ imports \in importSets
    /\ nodes \in trees
    /\ result = "none"
    /\ runs = 0
    /\ orig = File(imports, nodes)
    /\ first = File(imports, nodes)
    /\ diag = <<>>

Init == InitWith(ComponentImports, Trees(ComponentShapes, MaxNodes) \ {<<>>})

\* the sequences of 1..n elements of S
SeqsUpTo(S, n) == UNION {[1..k -> S] : k \in 1..n}

\* the style family: one element with a class string and, or not, an sx attribute
StyleTokens ==
    {<<"mb", HY, "2">>, <<"mt", HY, "3">>, <<"p", HY, "1">>, <<"card">>,
     <<"custom", HY, "mb", HY, "2">>, <<"constructor">>,
     <<"mb", HY, "3">>, <<"d", HY, "none">>, <<"d", HY, "flex">>}
ClassStrings == {Join(ts) : ts \in SeqsUpTo(StyleTokens, MaxTokens)}
SxForms ==
    {<<>>,
     <<Obj("sx", <<Prop("mb", "number", "9")>>)>>,
     <<Obj("sx", <<QuotedProp("mb", "number", "9")>>)>>,
     <<Obj("sx", <<Prop("color", "string", "red"), Prop("p", "number", "0")>>)>>,
     <<Dyn("sx", "styles")>>}
StyleImports == {<<>>, <<RB(<<Named("Button")>>)>>}
\* one element whose mapped prop has siblings: a class token that names a
\* variant, an id after the prop; a Col with column classes
SiblingShapes ==
    {<<Ident("Button"), <<Str("size", "sm")>>>>,
     <<Ident("Button"), <<Str("size", "sm"), Cls(<<"btn", HY, "danger">>)>>>>,
     <<Ident("Button"), <<Str("variant", "primary"), Str("id", "x")>>>>,
     <<Ident("Container"), <<Bare("fluid"), Str("id", "x")>>>>,
     <<Ident("Col"), <<Cls(<<"col", HY, "6">>)>>>>,
     <<Ident("Col"), <<Str("sm", "4"), Cls(<<"col", HY, "md", HY, "6", SP, "wide">>)>>>>}
StyleTrees ==
    {<<Elem(Ident(tag), TRUE, <<Cls(c)>> \o sx, 0)>> :
        <<tag, c, sx>> \in {"div", "Button"} \X ClassStrings \X SxForms}
    \cup {<<Elem(s[1], TRUE, s[2], 0)>> : s \in SiblingShapes}

InitStyle == InitWith(StyleImports, StyleTrees)

\* the imports family: target modules that are already imported, or not
ExistingImports ==
    {<<>>,
     <<Decl("@mui/material", "", <<Named("Box")>>)>>,
     <<Decl("@mui/material/Typography", "", <<Spec_("default", "default", "Typography")>>)>>,
     <<Decl("@mui/material/Button", "", <<Spec_("default", "default", "MuiButton")>>)>>,
     <<Decl("./bootstrap-utils", "", <<Named("cx")>>)>>}
SourceImports ==
    {<<RB(<<Named("Button"), Named("Card")>>)>>,
     <<RB(<<Named("Card"), Named("Button")>>)>>,
     <<RB(<<Named("Button"), Named("Alert")>>)>>,
     <<RB(<<Named("CardTitle"), Named("CardText")>>)>>,
     <<RB(<<Named("Card")>>)>>}
ImportShapes ==
    {Shape(Ident("Button"), TRUE, <<>>),
     Shape(Ident("Card"), TRUE, <<>>),
     Shape(Ident("Alert"), TRUE, <<>>),
     Shape(Ident("CardTitle"), TRUE, <<>>),
     Shape(Ident("CardText"), TRUE, <<>>),
     Shape(Tag("Card", "Title"), TRUE, <<>>)}

InitImports ==
    InitWith({e \o r : <<e, r>> \in ExistingImports \X SourceImports},
             Trees(ImportShapes, MaxNodes) \ {<<>>})

\* the modal family: <Modal><Modal.Header> items </Modal.Header></Modal>, or the
\* items directly under <Modal>; an item is a text or a <Modal.Title> with children
ModalItems ==
    {[title |-> FALSE, children |-> <<"C">>],
     [title |-> TRUE, children |-> <<>>],
     [title |-> TRUE, children |-> <<"A">>],
     [title |-> TRUE, children |-> <<"B">>],
     [title |-> TRUE, children |-> <<"A", "i">>]}

\* a child of a title: the element <i/>, or a text
TitleChild(c, parent) == IF c = "i" THEN Elem(Ident("i"), FALSE, <<>>, parent) ELSE Text(c, parent)

ModalTree(items, underHeader) ==
    LET top == IF underHeader
               THEN <<Elem(Ident("Modal"), TRUE, <<>>, 0), Elem(Tag("Modal", "Header"), TRUE, <<>>, 1)>>
               ELSE <<Elem(Ident("Modal"), TRUE, <<>>, 0)>>
    IN Fold(LAMBDA t, it :
               IF it.title
               THEN LET at == Len(t) + 1
                    IN Append(t, Elem(Tag("Modal", "Title"), TRUE, <<>>, Len(top))) \o
                       [k \in 1..Len(it.children) |-> TitleChild(it.children[k], at)]
               ELSE Append(t, Text(it.children[1], Len(top))),
            top, items)
ModalImports ==
    {<<>>,
     <<RB(<<Named("Modal")>>)>>,
     <<RB(<<Named("Modal"), Named("Carousel")>>)>>,
     <<Decl("./Modal", "", <<Spec_("default", "default", "Modal")>>)>>}

\* a <Modal.Title> that is not under a <Modal.Header>: alone, or in a <div>
LoneTitles ==
    {<<Elem(Tag("Modal", "Title"), TRUE, <<>>, 0), Text("A", 1)>>,
     <<Elem(Ident("div"), TRUE, <<>>, 0), Elem(Tag("Modal", "Title"), TRUE, <<>>, 1), Text("A", 2)>>}

InitModal ==
    InitWith(ModalImports,
             {ModalTree(items, h) : <<items, h>> \in SeqsUpTo(ModalItems, MaxItems) \X BOOLEAN}
                \cup LoneTitles)

\* the props family: attributes without a static value, renamed and dropped
\* attributes, sub-components under an alias and without a closing tag,
\* components without a rule
PropImports ==
    {<<RB(<<Named("Button"), Named("Modal")>>)>>,
     <<RB(<<Named("Modal"), Named("Card")>>)>>,
     <<RB(<<Spec_("named", "Modal", "M"), Spec_("named", "Card", "C")>>)>>,
     <<RB(<<Named("Input"), Named("FormControl"), Named("Carousel")>>)>>}
PropShapes ==
    {Shape(Ident("Button"), TRUE, <<Dyn("variant", "v")>>),
     Shape(Ident("Button"), TRUE, <<Bare("variant")>>),
     Shape(Ident("Button"), TRUE, <<Dyn("size", "s")>>),
     Shape(Ident("Modal"), TRUE, <<Dyn("show", "open"), Dyn("onHide", "close")>>),
     Shape(Ident("Modal"), TRUE, <<Bare("show")>>),
     Shape(Ident("Modal"), TRUE, <<Str("show", "yes")>>),
     Shape(Tag("Modal", "Header"), FALSE, <<>>),
     Shape(Tag("M", "Header"), TRUE, <<>>),
     Shape(Tag("Card", "Title"), TRUE, <<>>),
     Shape(Tag("C", "Title"), TRUE, <<>>),
     Shape(Ident("Input"), FALSE, <<Str("type", "text")>>),
     Shape(Ident("FormControl"), FALSE, <<Str("controlId", "x")>>),
     Shape(Ident("Carousel"), TRUE, <<>>),
     Shape(Tag("Carousel", "Item"), TRUE, <<>>)}

InitProps == InitWith(PropImports, Trees(PropShapes, MaxNodes) \ {<<>>})

-----------------------------------------------------------------------------
(* Running a transformer: jscodeshift parses the file, calls the transformer *)
(* and writes back what it returns (nothing when it returns null, or throws). *)

Run(e, out) ==
    LET o == out
        keep == o.threw \/ o.ret # "printed"
        text == IF keep THEN Current ELSE toSource(o)
    IN /\ runs < MaxRuns
       /\ result # "threw"
       /\ runs = 0 \/ engine = e
       /\ engine' = e
       /\ runs' = runs + 1
       /\ result' = IF o.threw THEN "threw" ELSE o.ret
       /\ imports' = text.imports
       /\ nodes' = text.nodes
       /\ first' = IF runs = 0 THEN text ELSE first
       /\ diag' = diag \o o.diag
       /\ UNCHANGED <<parser, orig>>

RunG1 == Run("G1", G1_transformer(parse(Current, parser)))
RunMN == Run("MN", MN_transformer(parse(Current, parser)))
RunCL == Run("CL", CL_transformer(parse(Current, parser)))
RunG2 == Run("G2", G2_transformer(parse(Current, parser)))
RunDP == Run("DP", DP_transformer(parse(Current, parser)))
RunP1 == Run("P1", P1_transformer(parse(Current, parser)))
RunP0 == Run("P0", P0_transformer(parse(Current, parser)))
RunRC == Run("RC", RC_transformer(parse(Current, "tsx")))

Next == RunG1 \/ RunG2 \/ RunCL \/ RunDP \/ RunMN \/ RunP1 \/ RunP0 \/ RunRC

Spec == Init /\ [][Next]_vars
SpecStyle == InitStyle /\ [][Next]_vars
SpecImports == InitImports /\ [][Next]_vars
SpecModal == InitModal /\ [][Next]_vars
SpecProps == InitProps /\ [][Next]_vars

-----------------------------------------------------------------------------
(* Properties.  A transformer has been run once on the input file `orig`    *)
(* when runs = 1; the file is then its output, or `orig` when it returned   *)
(* null or threw.                                                           *)

SourceLibrary == "react-bootstrap"

\* the names a file binds by an import from the source library
BoundNames(f) ==
    {f.imports[d].specs[k].local :
        <<d, k>> \in {x \in (1..Len(f.imports)) \X (1..8) :
                        /\ f.imports[x[1]].source = SourceLibrary
                        /\ x[2] <= Len(f.imports[x[1]].specs)}}

\* the canonical (imported) name a file binds the local name to, by a named import
CanonicalName(f, local) ==
    LET hits == {<<d, k>> \in (1..Len(f.imports)) \X (1..8) :
                    /\ f.imports[d].source = SourceLibrary
                    /\ k <= Len(f.imports[d].specs)
                    /\ f.imports[d].specs[k].kind = "named"
                    /\ f.imports[d].specs[k].local = local}
    IN IF hits = {} THEN Undef
       ELSE LET h == CHOOSE x \in hits : TRUE IN f.imports[h[1]].specs[h[2]].imported

RanOnce(engines) == runs = 1 /\ engine \in engines /\ result # "threw"

\* the run kept the shape of the tree: node i of the output is node i of the input
SameShape ==
    /\ Len(nodes) = Len(orig.nodes)
    /\ \A i \in 1..Len(nodes) : nodes[i].parent = orig.nodes[i].parent

\* C1 (no-op stability): a transformer (G1, CL, MN) run on a file that has no
\* import from the source library returns the unchanged sentinel (null, or the
\* text of the input), modifies no element and adds or removes no import.
C1_NoOpStability ==
    (RanOnce({"G1", "CL", "MN"}) /\ BoundNames(orig) = {}
        /\ \A d \in 1..Len(orig.imports) : orig.imports[d].source # SourceLibrary)
    => (result \in {"null", "printed"} /\ Current = orig)

\* C2 (idempotence): running a transformer (CL, DP) on its own output changes
\* nothing: the second run leaves the text of the first run's output.
C2_Idempotence ==
    (runs = 2 /\ engine \in {"CL", "DP"} /\ result # "threw") => Current = first

\* the tag names that are keys of a rule in G1, G2 or DP
C3_RuleKeys ==
    {"Button", "Alert", "Modal", "Container", "Row", "Col", "Card", "Navbar", "Spinner",
     "Badge", "Table", "Form"}

\* C3 (alias correctness): an element whose tag name is a rule key but is not
\* bound by an import from the source library is never renamed, keeps its
\* attributes, and causes no import to be added (G1, G2, DP).
C3_AliasCorrectness ==
    RanOnce({"DP", "G2", "G1"}) =>
        LET unbound(i) == /\ orig.nodes[i].kind = "elem"
                          /\ orig.nodes[i].open.obj \in C3_RuleKeys
                          /\ orig.nodes[i].open.obj \notin BoundNames(orig)
        IN /\ SameShape => \A i \in 1..Len(nodes) : unbound(i) => nodes[i] = orig.nodes[i]
           /\ (\A i \in 1..Len(orig.nodes) : unbound(i)) =>
                 \A d \in 1..Len(imports) : \E o \in 1..Len(orig.imports) : imports[d] = orig.imports[o]

\* the keys of the value mapping table of a prop of a component, per transformer
\* ({} when the transformer maps the prop by no table)
C4_Tables ==
    [CL |-> [Button |-> [variant |-> DOMAIN CL_BUTTON_VARIANTS, size |-> DOMAIN CL_SIZE_MAP],
             Alert |-> [variant |-> DOMAIN CL_ALERT_SEVERITY, size |-> {}]],
     G2 |-> [Button |-> [variant |-> DOMAIN G2_bootstrapVariantMap, size |-> DOMAIN G2_sizeMap],
             Alert |-> [variant |-> DOMAIN G2_variantMap, size |-> {}]],
     MN |-> [Button |-> [variant |-> {"primary", "secondary", "link"}, size |-> {"sm", "lg"}],
             Alert |-> [variant |-> {}, size |-> {}]]]

\* C4 (enum passthrough): when a value-mapped prop (Button variant or size,
\* Alert variant) carries a literal that is no key of the mapping table, the
\* output element still has the attribute, with its name and its value (CL, G2, MN).
C4_EnumPassthrough ==
    (RanOnce({"CL", "G2", "MN"}) /\ SameShape) =>
        \A i \in 1..Len(nodes) :
            LET comp == CanonicalName(orig, orig.nodes[i].open.obj)
                attrs == orig.nodes[i].attrs
            IN (orig.nodes[i].kind = "elem" /\ ~IsMember(orig.nodes[i].open)
                    /\ comp \in {"Button", "Alert"}) =>
                \A x \in 1..Len(attrs) :
                    (/\ attrs[x].name \in {"variant", "size"}
                     /\ attrs[x].form = "lit" /\ attrs[x].ty = "string"
                     /\ C4_Tables[engine][comp][attrs[x].name] # {}
                     /\ attrs[x].val \notin C4_Tables[engine][comp][attrs[x].name])
                    => \E y \in 1..Len(nodes[i].attrs) :
                          /\ nodes[i].attrs[y].name = attrs[x].name
                          /\ nodes[i].attrs[y].ty = "string"
                          /\ nodes[i].attrs[y].val = attrs[x].val

\* the canonical names that have a rule, per transformer
C9_HasRule(e, name) ==
    CASE e = "MN" -> name \in DOMAIN MN_componentMap
      [] e = "P1" -> name \in DOMAIN P1_REPLACEMENTS
      [] OTHER -> name \in DOMAIN G1_COMPONENT_MAP

\* the specifiers a file imports from the source library, in order
SourceSpecifiers(f) ==
    Concat([d \in 1..Len(f.imports) |->
               IF f.imports[d].source = SourceLibrary THEN f.imports[d].specs ELSE <<>>])

\* C9 (partial-migration import removal): after the transform a specifier of the
\* source library's import is removed if and only if its canonical name had a
\* rule; default and namespace specifiers and names without a rule stay, and the
\* statement goes only when none of its specifiers is left (MN, P1, G1).
C9_PartialRemoval ==
    (RanOnce({"MN", "P1", "G1"}) /\ result = "printed") =>
        /\ SourceSpecifiers(Current) =
              SelectSeq(SourceSpecifiers(orig),
                        LAMBDA sp : ~(sp.kind = "named" /\ C9_HasRule(engine, sp.imported)))
        /\ \A d \in 1..Len(imports) : imports[d].source = SourceLibrary => Len(imports[d].specs) > 0

AttrsNamed(attrs, name) == SelectSeq(attrs, LAMBDA a : a.name = name)

\* the keys of an object expression, and the value the object has at a key (of
\* several properties with one key, the last one counts)
KeysOf(props) == {props[k].key : k \in 1..Len(props)}
ValueAt(props, key) ==
    LET at == {k \in 1..Len(props) : props[k].key = key}
        last == CHOOSE k \in at : \A j \in at : j <= k
    IN [ty |-> props[last].ty, val |-> props[last].val]

\* C5 (style merge precedence): when derived styles are merged into an element
\* that already has an sx attribute, every key of the existing attribute keeps
\* its value and only keys absent from it are added, whatever the form of the
\* existing value; an sx value that is no object literal is kept as it is
\* (G2, DP, CL).
C5_MergePrecedence ==
    (RanOnce({"G2", "DP", "CL"}) /\ SameShape) =>
        \A i \in 1..Len(nodes) :
            LET before == AttrsNamed(orig.nodes[i].attrs, "sx")
                after == AttrsNamed(nodes[i].attrs, "sx")
            IN Len(before) = 1 =>
                  /\ Len(after) = 1
                  /\ IF before[1].ty = "object"
                     THEN /\ after[1].ty = "object"
                          /\ \A key \in KeysOf(before[1].props) :
                                /\ key \in KeysOf(after[1].props)
                                /\ ValueAt(after[1].props, key) = ValueAt(before[1].props, key)
                          /\ \A k \in 1..Len(after[1].props) :
                                \/ \E j \in 1..Len(before[1].props) :
                                      after[1].props[k] = before[1].props[j]
                                \/ after[1].props[k].key \notin KeysOf(before[1].props)
                     ELSE after[1] = before[1]

\* the token is a key of a style rule: a rule's pattern matches all of it
IsStyleRuleKey(rules, token) ==
    \E r \in 1..Len(rules) : Len(rules[r].pat) = Len(token) /\ MatchesAt(token, rules[r].pat, 1)

\* some style rule matches in the class string: the conversion takes place
HasStyleMatch(rules, cls) ==
    \E r \in 1..Len(rules) : Len(MatchesFrom(cls, rules[r].pat, 1)) > 0

RECURSIVE IsSubsequence(_, _)
IsSubsequence(a, b) ==
    IF Len(a) = 0 THEN TRUE
    ELSE IF Len(b) = 0 THEN FALSE
    ELSE IF a[1] = b[1] THEN IsSubsequence(Tail(a), Tail(b))
    ELSE IsSubsequence(a, Tail(b))

\* the token is a style-rule key of the transformer
C6_IsKey(e, token) ==
    CASE e = "CL" -> IsStyleRuleKey(CL_CLASS_TO_SX, token)
      [] e = "G2" -> IsStyleRuleKey(G2_rules, token)
      [] OTHER -> Len(DP_entry(token)) > 0

\* the transformer derives a style from the class string
C6_Converts(e, cls) ==
    CASE e = "CL" -> HasStyleMatch(CL_CLASS_TO_SX, cls)
      [] e = "G2" -> HasStyleMatch(G2_rules, cls)
      [] OTHER -> \E k \in 1..Len(Tokens(cls)) : Len(DP_entry(Tokens(cls)[k])) > 0

\* C6 (unmatched class tokens): after the conversion of a class string, every
\* token that is no style-rule key (such as custom-mb-2) is still in the class
\* attribute, unmodified and in its order, and the class attribute is removed
\* only when no token remains (CL, G2, DP).
C6_UnmatchedTokens ==
    (RanOnce({"CL", "G2", "DP"}) /\ SameShape) =>
        \A i \in 1..Len(nodes) :
            LET before == AttrsNamed(orig.nodes[i].attrs, "className")
                after == AttrsNamed(nodes[i].attrs, "className")
                unmatched == SelectSeq(Tokens(before[1].cls),
                                       LAMBDA t : ~C6_IsKey(engine, t))
            IN (Len(before) = 1 /\ before[1].form = "lit" /\ C6_Converts(engine, before[1].cls)) =>
                  /\ Len(after) = 0 => unmatched = <<>>
                  /\ Len(after) = 1 => IsSubsequence(unmatched, Tokens(after[1].cls))

DeclsFrom(f, src) == SelectSeq(f.imports, LAMBDA d : d.source = src)

\* the tags of the elements of a file
TagsOf(f) == {f.nodes[i].open : i \in {n \in 1..Len(f.nodes) : f.nodes[n].kind = "elem"}}

Symbol(module, imported, local, comp) ==
    [module |-> module, imported |-> imported, local |-> local, comp |-> comp]

\* the component CL imports for an element with tag t (lines 142-340: the calls
\* of addMUIImport in transformButtons ... transformFormControls), or undefined
CL_Target(t) ==
    IF IsMember(t)
    THEN CASE t.obj = "Card" /\ t.prop = "Body" -> "CardContent"
           [] t.obj = "Card" /\ t.prop = "Header" -> "CardHeader"
           [] t.obj = "Card" /\ t.prop = "Title" -> "Typography"
           [] t.obj = "Form" /\ t.prop = "Control" -> "TextField"
           [] OTHER -> Undef
    ELSE CASE t.obj \in {"Button", "Alert", "Container", "Card"} -> t.obj
           [] t.obj = "Modal" -> "Dialog"
           [] t.obj \in {"Row", "Col"} -> "Grid"
           [] OTHER -> Undef

\* the symbols a transformer has to import for a file: for every component it
\* rewrites, the target module, the imported name and the local name
Required(e, f) ==
    LET named == {t \in TagsOf(f) : ~IsMember(t)}
        members == {t \in TagsOf(f) : IsMember(t)}
        specs == SourceSpecifiers(f)
    IN CASE e = "MN" ->
              {Symbol("@mui/material", MN_componentMap[CanonicalName(f, t.obj)],
                      MN_componentMap[CanonicalName(f, t.obj)], CanonicalName(f, t.obj)) :
                  t \in {x \in named : CanonicalName(f, x.obj) \in DOMAIN MN_componentMap}}
         [] e = "G1" ->
              {Symbol("@mui/material", G1_COMPONENT_MAP[CanonicalName(f, t.obj)].self.newName,
                      G1_COMPONENT_MAP[CanonicalName(f, t.obj)].self.newName,
                      CanonicalName(f, t.obj)) :
                  t \in {x \in named : CanonicalName(f, x.obj) \in DOMAIN G1_COMPONENT_MAP}}
         [] e = "P1" ->
              {Symbol(MuiPath(P1_REPLACEMENTS[sp.imported]), P1_REPLACEMENTS[sp.imported],
                      sp.local, sp.imported) :
                  sp \in {x \in Elems(specs) :
                             x.kind = "named" /\ x.imported \in DOMAIN P1_REPLACEMENTS}}
              \cup
              {Symbol(MuiPath(P1_CARD_SUBCOMPONENTS[t.prop]), P1_CARD_SUBCOMPONENTS[t.prop],
                      P1_CARD_SUBCOMPONENTS[t.prop], t.prop) :
                  t \in {x \in members : /\ CanonicalName(f, x.obj) = "Card"
                                         /\ x.prop \in DOMAIN P1_CARD_SUBCOMPONENTS}}
         [] e = "DP" ->
              {Symbol(MuiPath(c.name), "default", c.name, c.key) :
                  c \in {x \in Elems(DP_COMPONENT_MAP) : Ident(x.key) \in named}}
              \cup
              {Symbol(MuiPath(c.name), "default", c.name, c.child) :
                  c \in {x \in Elems(DP_SUBCOMPONENT_MAP) : Tag(x.parent, x.child) \in members}}
         [] e = "CL" ->
              {Symbol(MuiPath(CL_Target(t)), "default", CL_Target(t), t.obj) :
                  t \in {x \in TagsOf(f) : CL_Target(x) # Undef}}
         [] e = "RC" ->
              {Symbol(RC_componentMap[CanonicalName(f, t.obj)],
                      RC_muiCompName(CanonicalName(f, t.obj)),
                      RC_muiCompName(CanonicalName(f, t.obj)), CanonicalName(f, t.obj)) :
                  t \in {x \in named : /\ CanonicalName(f, x.obj) \in DOMAIN RC_componentMap
                                        /\ RC_componentMap[CanonicalName(f, x.obj)] # "null"}}
         [] OTHER -> {}

\* C7 (import de-duplication): when two or more rewritten components map to one
\* target module, the output has exactly one import statement for that module,
\* with one specifier for every required symbol (MN, G1, P1).
C7_ImportDedup ==
    (RanOnce({"MN", "G1", "P1"}) /\ result = "printed") =>
        LET req == Required(engine, orig)
        IN \A m \in {r.module : r \in req} :
              Cardinality({r.comp : r \in {x \in req : x.module = m}}) >= 2 =>
                 LET ds == DeclsFrom(Current, m)
                 IN /\ Len(ds) = 1
                    /\ \A r \in {x \in req : x.module = m} :
                          Cardinality({k \in 1..Len(ds[1].specs) :
                                          /\ ds[1].specs[k].imported = r.imported
                                          /\ ds[1].specs[k].local = r.local}) = 1

\* C8 (merge into an existing import): when the input already has an import
\* statement for a required target module, the new specifiers are appended to
\* it, no second statement for the module is created, and no specifier is added
\* whose local name the statement binds already (MN, P1, DP).
C8_MergeIntoExisting ==
    (RanOnce({"MN", "P1", "DP"}) /\ result = "printed") =>
        \A m \in {r.module : r \in Required(engine, orig)} :
            LET old == DeclsFrom(orig, m)
                new == DeclsFrom(Current, m)
            IN Len(old) = 1 =>
                  /\ Len(new) = 1
                  /\ Len(new[1].specs) >= Len(old[1].specs)
                  /\ SubSeq(new[1].specs, 1, Len(old[1].specs)) = old[1].specs
                  /\ \A j, k \in 1..Len(new[1].specs) :
                        new[1].specs[j].local = new[1].specs[k].local => j = k

\* the element is <Modal.Title> of the source library's Modal, directly under its
\* <Modal.Header> (which G1 rewrites to DialogTitle)
IsGraftedTitle(f, i) ==
    /\ f.nodes[i].kind = "elem"
    /\ f.nodes[i].open = Tag("Modal", "Title")
    /\ CanonicalName(f, "Modal") = "Modal"
    /\ f.nodes[i].parent # 0
    /\ f.nodes[f.nodes[i].parent].open = Tag("Modal", "Header")

\* what identifies a child: a text by its text, an element by its tag
SameNode(a, b) == a.kind = b.kind /\ a.open = b.open /\ a.txt = b.txt

\* C10 (structural graft): after G1 has processed a <Modal.Title> whose parent is
\* rewritten to DialogTitle, the output has no such Modal.Title element, and
\* every child of the Modal.Title is, in its original order, a child of the
\* element that replaced the Modal.Title's parent.
C10_StructuralGraft ==
    (RanOnce({"G1"}) /\ result = "printed") =>
        /\ \A k \in 1..Len(nodes) :
              (nodes[k].open = Tag("Modal", "Title") /\ nodes[k].parent # 0)
                 => nodes[nodes[k].parent].open # Ident("DialogTitle")
        /\ \A i \in 1..Len(orig.nodes) :
              IsGraftedTitle(orig, i) =>
                 LET children == Children(orig.nodes, i)
                     at(c) == {k \in 1..Len(nodes) :
                                  /\ SameNode(nodes[k], orig.nodes[c])
                                  /\ nodes[k].parent # 0
                                  /\ nodes[nodes[k].parent].open = Ident("DialogTitle")}
                 IN /\ \A x \in 1..Len(children) : at(children[x]) # {}
                    /\ \A x, y \in 1..Len(children) :
                          x < y => \E k \in at(children[x]), l \in at(children[y]) : k < l

\* C11 (never throws): a run of a transformer (CL, G1) on any input tree, with
\* self-closing sub-components, attributes without a value and attributes with
\* a computed value, completes and returns a result; it does not throw.
C11_NeverThrows ==
    (runs = 1 /\ engine \in {"CL", "G1"}) => result # "threw"

\* C12 (dynamic values are never guessed): when a Button prop with a value
\* mapping rule (variant, size) has a computed expression as value, or no
\* value, the output element still carries that attribute, with its name and
\* its value as they were (G1, MN, G2).
C12_DynamicPassthrough ==
    (RanOnce({"G1", "MN", "G2"}) /\ SameShape) =>
        \A i \in 1..Len(nodes) :
            LET attrs == orig.nodes[i].attrs
            IN (/\ orig.nodes[i].kind = "elem" /\ ~IsMember(orig.nodes[i].open)
                /\ CanonicalName(orig, orig.nodes[i].open.obj) = "Button") =>
                \A x \in 1..Len(attrs) :
                    (attrs[x].name \in {"variant", "size"} /\ attrs[x].form # "lit")
                    => \E y \in 1..Len(nodes[i].attrs) : nodes[i].attrs[y] = attrs[x]

\* the props of a component whose entry in MN's propMap is null
C13_Dropped(comp) ==
    IF comp \in DOMAIN MN_propMap
    THEN {p \in DOMAIN MN_propMap[comp] : MN_propMap[comp][p] = "null"}
    ELSE {}

\* C13 (drop rule): an attribute whose prop rule is a null entry of the prop map
\* (type on Input, controlId on FormControl) is not among the attributes of the
\* rewritten element (MN).
C13_DropRule ==
    (RanOnce({"MN"}) /\ SameShape) =>
        \A i \in 1..Len(nodes) :
            (orig.nodes[i].kind = "elem" /\ ~IsMember(orig.nodes[i].open)) =>
                \A y \in 1..Len(nodes[i].attrs) :
                    nodes[i].attrs[y].name \notin
                        C13_Dropped(CanonicalName(orig, orig.nodes[i].open.obj))

\* the plain renames of the props of Modal, per transformer: propMap of G1
\* (gemini2.js 50-51) and of MN (manus.js 50-53), the show rule of RC (lines 210-218)
C14_Renames(e) ==
    IF e = "RC" THEN [show |-> "open"] ELSE [show |-> "open", onHide |-> "onClose"]

\* every element of the file is bound to Modal
C14_OnlyModals(f) ==
    \A i \in 1..Len(f.nodes) :
        /\ f.nodes[i].kind = "elem" /\ ~IsMember(f.nodes[i].open)
        /\ CanonicalName(f, f.nodes[i].open.obj) = "Modal"

\* C14 (rename rule): after a run of a transformer (G1, MN, RC) on a file whose
\* elements are all bound to Modal, every attribute with a plain rename rule
\* (show, onHide) is on the output element under the new name (open, onClose)
\* with the value it had (a literal, an expression, or none), and no attribute
\* of the output element has the old name.
C14_RenameRule ==
    (runs = 1 /\ engine \in {"G1", "MN", "RC"} /\ C14_OnlyModals(orig)) =>
        /\ SameShape
        /\ \A i \in 1..Len(orig.nodes) :
              LET attrs == orig.nodes[i].attrs
                  renames == C14_Renames(engine)
              IN /\ \A x \in 1..Len(attrs) :
                        attrs[x].name \in DOMAIN renames =>
                            \E y \in 1..Len(nodes[i].attrs) :
                                nodes[i].attrs[y] = [attrs[x] EXCEPT !.name = renames[attrs[x].name]]
                 /\ \A y \in 1..Len(nodes[i].attrs) :
                        nodes[i].attrs[y].name \notin DOMAIN renames

\* C15 (unmapped component): an element, or Parent.Child sub-component, whose
\* root is bound by a named import from the source library to a canonical name
\* without a rule is left as it was, and the run emits a diagnostic that names
\* the canonical name (P1, G1, MN).
C15_UnmappedComponent ==
    (RanOnce({"P1", "G1", "MN"}) /\ SameShape) =>
        \A i \in 1..Len(nodes) :
            LET canonical == CanonicalName(orig, orig.nodes[i].open.obj)
            IN (/\ orig.nodes[i].kind = "elem"
                /\ canonical # Undef
                /\ ~C9_HasRule(engine, canonical)) =>
                /\ nodes[i] = orig.nodes[i]
                /\ canonical \in Elems(diag)

\* the canonical names and Parent.Child pairs that have a rule in P0 or RC
C16_HasRule(e, canonical, child) ==
    IF e = "P0"
    THEN IF child = "" THEN canonical \in DOMAIN P0_componentMap
         ELSE canonical \in DOMAIN P0_subComponentMap
              /\ child \in DOMAIN P0_subComponentMap[canonical]
    ELSE child = "" /\ canonical \in DOMAIN RC_componentMap /\ RC_componentMap[canonical] # "null"

\* no element of the file matches a component or sub-component rule of e
C16_NoMatch(e, f) ==
    \A i \in 1..Len(f.nodes) :
        f.nodes[i].kind = "elem" =>
            LET canonical == CanonicalName(f, f.nodes[i].open.obj)
            IN canonical = Undef \/ ~C16_HasRule(e, canonical, f.nodes[i].open.prop)

\* C16 (unchanged when no rule matches): a run of a transformer (RC, P0) on a
\* file that imports the source library but has no element matching a rule
\* returns the text of the input, with the source library's import in it.
C16_UnchangedNoMatch ==
    (RanOnce({"RC", "P0"}) /\ BoundNames(orig) # {} /\ C16_NoMatch(engine, orig)) =>
        /\ Current = orig
        /\ \E d \in 1..Len(imports) : imports[d].source = SourceLibrary

\* the tag a transformer's sub-component rule for (canonical, child) gives, or
\* undefined: SUBCOMPONENT_MAP of DP, subComponentMap of P0, the Card branches
\* of transformCards of CL
C17_Target(e, canonical, child) ==
    CASE e = "P0" ->
            IF canonical \in DOMAIN P0_subComponentMap
               /\ child \in DOMAIN P0_subComponentMap[canonical]
            THEN P0_subComponentMap[canonical][child] ELSE Undef
      [] e = "DP" ->
            LET hits == SelectSeq(DP_SUBCOMPONENT_MAP,
                                  LAMBDA r : r.parent = canonical /\ r.child = child)
            IN IF Len(hits) > 0 THEN hits[1].name ELSE Undef
      [] OTHER ->
            IF canonical = "Card" /\ child \in {"Body", "Header", "Title"}
            THEN [Body |-> "CardContent", Header |-> "CardHeader", Title |-> "Typography"][child]
            ELSE Undef

\* C17 (canonical parent name): after a run of a transformer (DP, P0, CL), an
\* element <A.Child> whose root A is bound by a named import `X as A` from the
\* source library has the tag of the sub-component rule for (X, Child), and an
\* element <X.Child> whose root is no local binding of the source library is as
\* it was.
C17_CanonicalParent ==
    (RanOnce({"DP", "P0", "CL"}) /\ SameShape) =>
        \A i \in 1..Len(nodes) :
            LET n == orig.nodes[i]
                canonical == CanonicalName(orig, n.open.obj)
            IN (n.kind = "elem" /\ IsMember(n.open)) =>
                /\ (canonical # Undef /\ C17_Target(engine, canonical, n.open.prop) # Undef)
                      => nodes[i].open = Ident(C17_Target(engine, canonical, n.open.prop))
                /\ n.open.obj \notin BoundNames(orig) => nodes[i] = n

\* C18 (both markers): after a run of a transformer (P0, RC), every element
\* that has a closing marker has the same tag name on its opening and on its
\* closing marker.
C18_BothMarkers ==
    RanOnce({"P0", "RC"}) =>
        \A i \in 1..Len(nodes) :
            (nodes[i].kind = "elem" /\ nodes[i].hasClose) => nodes[i].close = nodes[i].open

\* C19 (placement of a new import): after a run of a transformer (RC, P1, CL),
\* every import statement of a module the input did not import stands after
\* every import statement kept from the input, and every required target
\* module that the input did not import is imported by the output, also when
\* no import statement of the input is left.
C19_NewImportPlacement ==
    RanOnce({"RC", "P1", "CL"}) =>
        LET synthesized(d) == Len(DeclsFrom(orig, imports[d].source)) = 0
        IN /\ \A d, k \in 1..Len(imports) : (synthesized(d) /\ ~synthesized(k)) => k < d
           /\ \A m \in {r.module : r \in Required(engine, orig)} :
                 Len(DeclsFrom(orig, m)) = 0 => Len(DeclsFrom(Current, m)) > 0

\* the target module the rewrite of an element with tag t requires, or undefined
\* (CL: by the text of the tag; P1: by the canonical name of its root)
C20_Module(e, f, t) ==
    LET canonical == CanonicalName(f, t.obj)
    IN IF e = "CL"
       THEN IF CL_Target(t) # Undef THEN MuiPath(CL_Target(t)) ELSE Undef
       ELSE IF IsMember(t)
            THEN IF canonical = "Card" /\ t.prop \in DOMAIN P1_CARD_SUBCOMPONENTS
                 THEN MuiPath(P1_CARD_SUBCOMPONENTS[t.prop]) ELSE Undef
            ELSE IF canonical \in DOMAIN P1_REPLACEMENTS
                 THEN MuiPath(P1_REPLACEMENTS[canonical]) ELSE Undef

\* the elements of the file, in document order, that require module m
C20_Needs(e, f, m) ==
    SelectIdx(Len(f.nodes), LAMBDA i :
        f.nodes[i].kind = "elem" /\ C20_Module(e, f, f.nodes[i].open) = m)

\* C20 (import insertion order): after a run of a transformer (CL, P1), the
\* import statements of two target modules the input did not import stand in
\* the order in which an element of the input first required them, in
\* document order.
C20_InsertionOrder ==
    RanOnce({"CL", "P1"}) =>
        \A d1, d2 \in 1..Len(imports) :
            LET n1 == C20_Needs(engine, orig, imports[d1].source)
                n2 == C20_Needs(engine, orig, imports[d2].source)
            IN (/\ d1 < d2
                /\ imports[d1].source # imports[d2].source
                /\ Len(DeclsFrom(orig, imports[d1].source)) = 0
                /\ Len(DeclsFrom(orig, imports[d2].source)) = 0
                /\ Len(n1) > 0 /\ Len(n2) > 0)
               => n1[1] < n2[1]

\* the style entry a transformer's rules give for one token, as the properties
\* of an object (none when the token is no key of a rule)
C21_Style(e, token) ==
    IF e = "DP" THEN DP_entry(token)
    ELSE LET rules == IF e = "CL" THEN CL_CLASS_TO_SX ELSE G2_rules
             hits == SelectSeq(rules, LAMBDA r :
                         Len(r.pat) = Len(token) /\ MatchesAt(token, r.pat, 1))
         IN IF Len(hits) = 0 THEN <<>>
            ELSE IF hits[1].val = "" THEN <<Prop(hits[1].key, "number", token[Len(token)])>>
            ELSE <<Prop(hits[1].key, "string", hits[1].val)>>

\* C21 (earlier token wins): when the class string of an element without an sx
\* attribute is converted (DP, CL, G2), the derived sx object holds, for every
\* style key, the value of the first token of the string that maps to the key.
C21_EarlierTokenWins ==
    (RanOnce({"DP", "CL", "G2"}) /\ SameShape) =>
        \A i \in 1..Len(nodes) :
            LET before == AttrsNamed(orig.nodes[i].attrs, "className")
                after == AttrsNamed(nodes[i].attrs, "sx")
                tokens == Tokens(before[1].cls)
                style(t) == C21_Style(engine, tokens[t])
            IN (/\ Len(before) = 1 /\ before[1].form = "lit"
                /\ Len(AttrsNamed(orig.nodes[i].attrs, "sx")) = 0
                /\ Len(after) = 1 /\ after[1].ty = "object") =>
                \A t \in 1..Len(tokens) : \A p \in 1..Len(style(t)) :
                    (\A u \in 1..(t - 1) : style(t)[p].key \notin KeysOf(style(u))) =>
                        /\ style(t)[p].key \in KeysOf(after[1].props)
                        /\ ValueAt(after[1].props, style(t)[p].key) =
                              [ty |-> style(t)[p].ty, val |-> style(t)[p].val]

\* attributes for which no transformer has a prop rule
C22_Plain == {"id", "key", "onClick"}

\* C22 (attribute pass-through): every attribute without a prop rule (id, key,
\* onClick) of an element that a run (G2, MN) rewrote to another tag is on the
\* output element, with the same name and value.
C22_AttributePassThrough ==
    (RanOnce({"G2", "MN"}) /\ SameShape) =>
        \A i \in 1..Len(nodes) :
            (nodes[i].kind = "elem" /\ nodes[i].open # orig.nodes[i].open) =>
                \A k \in 1..Len(orig.nodes[i].attrs) :
                    orig.nodes[i].attrs[k].name \in C22_Plain =>
                        \E m \in 1..Len(nodes[i].attrs) : nodes[i].attrs[m] = orig.nodes[i].attrs[k]

\* C23 (structural edits see a stable parent): when G1 reaches a <Modal.Title>
\* directly under the <Modal.Header> of the source library's Modal, the header
\* has already been renamed, so the graft applies: the output has the
\* DialogTitle in the header's place and no Modal.Title is left under a
\* DialogTitle.
C23_StableParent ==
    (RanOnce({"G1"}) /\ result = "printed"
        /\ \E i \in 1..Len(orig.nodes) : IsGraftedTitle(orig, i)) =>
        /\ \E p \in 1..Len(nodes) : nodes[p].open = Ident("DialogTitle")
        /\ \A k \in 1..Len(nodes) :
              ~(/\ nodes[k].kind = "elem" /\ nodes[k].open = Tag("Modal", "Title"))

\* a G1 run that grafted the children of a Modal.Title into the renamed header
C23_Witness ==
    /\ RanOnce({"G1"}) /\ result = "printed"
    /\ \E i \in 1..Len(orig.nodes) :
          IsGraftedTitle(orig, i) /\ Len(Children(orig.nodes, i)) > 0
    /\ \E k \in 1..Len(nodes) :
          /\ nodes[k].kind = "text" /\ nodes[k].parent # 0
          /\ nodes[nodes[k].parent].open = Ident("DialogTitle")

\* the only elements of the file that G1 has a rule for are <Modal.Title>
\* elements whose parent is not a <Modal.Header>
C24_OnlyLoneTitles(f) ==
    /\ CanonicalName(f, "Modal") = "Modal"
    /\ \E i \in 1..Len(f.nodes) : f.nodes[i].kind = "elem" /\ f.nodes[i].open = Tag("Modal", "Title")
    /\ \A i \in 1..Len(f.nodes) :
          f.nodes[i].kind = "elem" =>
              \/ f.nodes[i].open = Tag("Modal", "Title") /\ ~IsGraftedTitle(f, i)
              \/ CanonicalName(f, f.nodes[i].open.obj) = Undef

\* C24 (missing structural target is a no-op): when G1 runs on a file whose only
\* matching elements are Modal.Title elements that are not under an element
\* renamed to DialogTitle, the titles are left untouched, the result is the
\* unchanged sentinel and the source-library import that binds Modal is kept.
C24_MissingTargetNoOp ==
    (runs = 1 /\ engine = "G1" /\ C24_OnlyLoneTitles(orig)) =>
        result = "null" /\ Current = orig

\* the file with, on every element, only the attributes that have a Button rule
C25_Stripped(f) ==
    [f EXCEPT !.nodes = [i \in 1..Len(f.nodes) |->
        [f.nodes[i] EXCEPT !.attrs = SelectSeq(@, LAMBDA a : a.name \in {"variant", "size"})]]]

\* what the Button rules emit
C25_Emitted(attrs) == SelectSeq(attrs, LAMBDA a : a.name \in {"variant", "color", "size"})

\* the name under which an input attribute is in the output
C25_Counterpart(name) == IF name = "fluid" THEN "maxWidth" ELSE name

\* C25 (prop rules are independent of sibling attributes): the variant, color
\* and size attributes G2 gives a Button are those it gives the same Button
\* without its other attributes, and in the output of G2 and DP two attributes
\* of an element stand in the order their input attributes had.
C25_SiblingIndependence ==
    (RanOnce({"G2", "DP"}) /\ SameShape) =>
        LET alone == G2_transformer(parse(C25_Stripped(orig), parser))
        IN \A i \in 1..Len(nodes) :
            LET before == orig.nodes[i].attrs
                after == nodes[i].attrs
                at(name) == {m \in 1..Len(after) : after[m].name = C25_Counterpart(name)}
            IN /\ (engine = "G2" /\ ~alone.threw /\ orig.nodes[i].open = Ident("Button")
                      /\ CanonicalName(orig, "Button") = "Button") =>
                     C25_Emitted(after) = C25_Emitted(toSource(alone).nodes[i].attrs)
               /\ orig.nodes[i].open \in {Ident("Button"), Ident("Container")} =>
                     \A x, y \in 1..Len(before) :
                        (x < y /\ at(before[x].name) # {} /\ at(before[y].name) # {}) =>
                            \E m \in at(before[x].name), n \in at(before[y].name) : m < n

\* the local names a file imports from a module
C26_Locals(f, src) ==
    {f.imports[x[1]].specs[x[2]].local :
        x \in {y \in (1..Len(f.imports)) \X (1..8) :
                  f.imports[y[1]].source = src /\ y[2] <= Len(f.imports[y[1]].specs)}}

\* C26 (imports only for emitted symbols): every specifier a run (DP, G2, RC)
\* adds to an import from the target library is the name of the tag of at least
\* one element of the output.
C26_OnlyEmittedImports ==
    (RanOnce({"DP", "G2", "RC"}) /\ result = "printed") =>
        \A d \in 1..Len(imports) :
            (imports[d].source = "@mui/material" \/ IsMuiPath(imports[d].source)) =>
                \A name \in C26_Locals(Current, imports[d].source)
                               \ C26_Locals(orig, imports[d].source) :
                    \E i \in 1..Len(nodes) : nodes[i].kind = "elem" /\ nodes[i].open.obj = name

\* a path of a style sheet of Bootstrap
C27_IsStyleSheet(src) == src = "bootstrap/dist/css/bootstrap.min.css"

\* C27 (unrelated imports are preserved): an import of the input whose source is
\* neither the source library nor a Bootstrap style sheet (a module of the
\* target library, a path that only contains the word bootstrap) is an import of
\* the output of a run (DP, G2), with the specifiers it had.
C27_UnrelatedImportsKept ==
    RanOnce({"DP", "G2"}) =>
        \A d \in 1..Len(orig.imports) :
            (orig.imports[d].source # SourceLibrary /\ ~C27_IsStyleSheet(orig.imports[d].source)) =>
                \E k \in 1..Len(imports) :
                    /\ imports[k].source = orig.imports[d].source
                    /\ Len(imports[k].specs) >= Len(orig.imports[d].specs)
                    /\ SubSeq(imports[k].specs, 1, Len(orig.imports[d].specs)) = orig.imports[d].specs

\* the breakpoint and size a column class token names, or <<>>
C28_Column(tok) ==
    IF Len(tok) = 3 /\ tok[1] = "col" /\ tok[2] = HY /\ AllDigits(tok[3]) THEN <<"xs", tok[3]>>
    ELSE IF Len(tok) = 5 /\ tok[1] = "col" /\ tok[2] = HY /\ tok[3] \in Breakpoints
            /\ tok[4] = HY /\ AllDigits(tok[5]) THEN <<tok[3], tok[5]>>
    ELSE <<>>

\* C28 (column class conversion): when a run (G2, DP) rewrites a Col whose class
\* string has a token col-<n> or col-<bp>-<n>, the Grid has the breakpoint
\* attribute (xs, or <bp>) with the value <n>, keeps the breakpoint attributes
\* the Col had, and its class attribute has lost the column token and kept the
\* tokens that no rule converts.
C28_ColumnClasses ==
    (RanOnce({"G2", "DP"}) /\ SameShape) =>
        \A i \in 1..Len(nodes) :
            LET before == orig.nodes[i].attrs
                after == nodes[i].attrs
                class == AttrsNamed(before, "className")
                tokens == Tokens(class[1].cls)
                columns == SelectSeq(tokens, LAMBDA t : C28_Column(t) # <<>>)
                kept == SelectSeq(tokens, LAMBDA t : C28_Column(t) = <<>> /\ ~C6_IsKey(engine, t))
                left == AttrsNamed(after, "className")
            IN (/\ orig.nodes[i].open = Ident("Col") /\ Len(class) = 1
                /\ class[1].form = "lit" /\ Len(columns) > 0) =>
                /\ nodes[i].open = Ident("Grid")
                /\ \A c \in 1..Len(columns) :
                      \E m \in 1..Len(after) :
                          /\ after[m].name = C28_Column(columns[c])[1]
                          /\ after[m].ty = "number"
                          /\ after[m].val = C28_Column(columns[c])[2]
                /\ \A k \in 1..Len(before) :
                      before[k].name \in Breakpoints => \E m \in 1..Len(after) : after[m] = before[k]
                /\ \A m \in 1..Len(left) :
                      \A t \in 1..Len(Tokens(left[m].cls)) : C28_Column(Tokens(left[m].cls)[t]) = <<>>
                /\ Len(kept) > 0 =>
                      /\ Len(left) = 1
                      /\ \A t \in 1..Len(kept) :
                            \E u \in 1..Len(Tokens(left[1].cls)) : Tokens(left[1].cls)[u] = kept[t]

\* C29 (Modal sub-components are all converted): after a run (G2, CL) has
\* rewritten a Modal of the source library to Dialog, no Modal.Header,
\* Modal.Title, Modal.Body or Modal.Footer element is left below the Dialog, at
\* any depth.
C29_NoModalChildLeft ==
    (RanOnce({"G2", "CL"}) /\ result = "printed" /\ CanonicalName(orig, "Modal") = "Modal") =>
        \A k \in 1..Len(nodes) :
            (/\ nodes[k].kind = "elem" /\ nodes[k].open.obj = "Modal"
             /\ nodes[k].open.prop \in {"Header", "Title", "Body", "Footer"}) =>
                \A a \in Ancestors(nodes, nodes[k].parent) : nodes[a].open # Ident("Dialog")

\* the sources of the imports of a file that bind a local name
C30_Binders(f, local) ==
    {f.imports[x[1]].source :
        x \in {y \in (1..Len(f.imports)) \X (1..8) :
                  /\ y[2] <= Len(f.imports[y[1]].specs)
                  /\ f.imports[y[1]].specs[y[2]].local = local}}

\* C30 (no dangling reference): every element of the output of a run (RC, G1,
\* P0) whose tag, or the root of whose tag, was bound by an import of the input
\* is still bound: a renamed tag by a specifier of the target library with that
\* local name, a tag left with its name by the import that bound it.
C30_NoDanglingReference ==
    (RanOnce({"RC", "G1", "P0"}) /\ SameShape) =>
        \A i \in 1..Len(nodes) :
            (nodes[i].kind = "elem" /\ C30_Binders(orig, orig.nodes[i].open.obj) # {}) =>
                \/ \E src \in C30_Binders(Current, nodes[i].open.obj) :
                        src = "@mui/material" \/ IsMuiPath(src)
                \/ /\ nodes[i].open.obj = orig.nodes[i].open.obj
                   /\ C30_Binders(orig, nodes[i].open.obj) \subseteq C30_Binders(Current, nodes[i].open.obj)

====
